---- MODULE Spec2Model ----
(***************************************************************************)
(* Model of the Codex plugin bridge (codex-plugin-bridge.js, the second    *)
(* script of src/src/install-codex-zsh-hook.js, lines 626-1590).           *)
(*                                                                         *)
(* The system is a set of bridge processes (one per invocation, each with  *)
(* its own PID), the watch.lock file they share, the session log files     *)
(* they tail, the manifest they read, and a wall clock.  A process runs    *)
(* either runOnce or watch; every file-system call of acquireWatchLock and *)
(* of its release closure is one step, so that calls of different          *)
(* processes interleave as the operating system lets them.                 *)
(***************************************************************************)
EXTENDS Integers, Sequences, FiniteSets, TLC

(***************************************************************************)
(* Bounds of the model.                                                    *)
(***************************************************************************)
NProcs == 2          \* bridge invocations (PIDs 1..NProcs)
MaxFileLen == 4      \* bytes (SpecTail) a session file may grow to
MaxLines == 3        \* lines (SpecDispatch) a session file may grow to
MaxTicks == 2        \* clock advances in one behaviour
\* RECENT_EVENT_MAX is 2000 in the source (line 644).  The code only compares
\* the cache size with it, so the model scales it down to make the
\* over-capacity branch of recordAndCheckDuplicateEvent reachable.
RECENT_EVENT_MAX == 1

(***************************************************************************)
(* Program constants.                                                      *)
(***************************************************************************)
RECENT_EVENT_TTL_MS == 30000

Procs == 1..NProcs
Files == {1, 2}      \* session files, numbered in path order
NoPid == 0           \* null: no PID could be read
MaxLookups == 4         \* calls of recordAndCheckDuplicateEvent in one behaviour (SpecDedup)
MaxLog == 3             \* records other bridge processes have left in the debug log
MaxConfigLen == 4       \* tokens of the config text applyManagedBlock is first called on
WATCH_CLEANUP_ACTIVITY_WINDOW_MS == 21600000
StalePid == NProcs + 1   \* the PID of an earlier watcher that died holding the lock

(***************************************************************************)
(* Bytes, characters and lines.                                            *)
(*                                                                         *)
(* A session file is a sequence of bytes.  A byte is the newline, one of   *)
(* the two bytes "c3" "a9" of the UTF-8 encoding of one non-ASCII          *)
(* character, or a symbol that stands for the whole text of one JSON       *)
(* record (or of one piece of text that is not JSON).  A line is the       *)
(* sequence of characters between two newlines.                            *)
(***************************************************************************)
NL == "\n"
Replacement == "U+FFFD"
NonAscii == "U+00E9"

\* buffer.toString('utf8'): a complete two-byte sequence is one character; a
\* lead byte without its continuation byte, and a continuation byte without
\* its lead byte, each decode to U+FFFD.
RECURSIVE Utf8Decode(_)
Utf8Decode(bytes) ==
  IF bytes = <<>> THEN <<>>
  ELSE IF Head(bytes) = "c3"
    THEN IF Len(bytes) >= 2 /\ bytes[2] = "a9"
           THEN <<NonAscii>> \o Utf8Decode(SubSeq(bytes, 3, Len(bytes)))
           ELSE <<Replacement>> \o Utf8Decode(Tail(bytes))
  ELSE IF Head(bytes) = "a9"
    THEN <<Replacement>> \o Utf8Decode(Tail(bytes))
  ELSE <<Head(bytes)>> \o Utf8Decode(Tail(bytes))

\* text.split('\n'): the pieces between newlines; never empty.
RECURSIVE SplitLines(_)
SplitLines(text) ==
  IF \A i \in 1..Len(text) : text[i] # NL THEN <<text>>
  ELSE LET k == CHOOSE i \in 1..Len(text) :
                  text[i] = NL /\ \A j \in 1..(i - 1) : text[j] # NL
       IN <<SubSeq(text, 1, k - 1)>> \o SplitLines(SubSeq(text, k + 1, Len(text)))

Front(s) == SubSeq(s, 1, Len(s) - 1)
Last(s) == s[Len(s)]

\* String.prototype.trim on a line: leading and trailing blanks removed.
RECURSIVE TrimLeft(_)
TrimLeft(line) ==
  IF line # <<>> /\ Head(line) = " " THEN TrimLeft(Tail(line)) ELSE line

RECURSIVE TrimRight(_)
TrimRight(line) ==
  IF line # <<>> /\ Last(line) = " " THEN TrimRight(Front(line)) ELSE line

Trim(line) == TrimRight(TrimLeft(line))

(***************************************************************************)
(* JSON records.  A parsed record is a flat TLA+ record; a field that is   *)
(* absent, or is not a string, is NoStr.  A string is a sequence of words  *)
(* so that joining with blanks and searching are computable.               *)
(***************************************************************************)
NoStr == <<"<absent>">>
NoTs == -1           \* no timestamp, or one Date.parse cannot read

Doc(type, ptype, ts) ==
  [ok |-> TRUE, type |-> type, hasPayload |-> TRUE, ptype |-> ptype,
   timestamp |-> ts, name |-> NoStr, arguments |-> "absent",
   call_id |-> NoStr, tool_name |-> NoStr, command |-> NoStr,
   reason |-> NoStr, justification |-> NoStr]

InvalidJson == [Doc(NoStr, NoStr, NoTs) EXCEPT !.ok = FALSE, !.hasPayload = FALSE]

RmCommand == <<"rm", "-rf", "/tmp">>

\* The record texts the model writes to session files.  "ts" carries an old
\* timestamp (5 s), the others a recent one (20 s) or none.
Catalog(sym) ==
  CASE sym = "ts" -> Doc(<<"event_msg">>, <<"task_started">>, 5)
    [] sym = "am" -> Doc(<<"event_msg">>, <<"agent_message">>, 20)
    [] sym = "tc" -> Doc(<<"event_msg">>, <<"task_complete">>, 20)
    [] sym = "ex" -> [Doc(<<"event_msg">>, <<"exec_approval_request">>, NoTs)
                        EXCEPT !.command = RmCommand]
    [] sym = "fc" -> [Doc(<<"response_item">>, <<"function_call">>, 20)
                        EXCEPT !.name = <<"shell">>, !.arguments = "escalated",
                               !.call_id = <<"call-1">>]
    [] sym = "fn" -> [Doc(<<"response_item">>, <<"function_call">>, 20)
                        EXCEPT !.name = <<"shell">>, !.arguments = "plain",
                               !.call_id = <<"call-2">>]
    [] sym = "tk" -> Doc(<<"turn_context">>, NoStr, 20)
    [] sym = "e0" -> Doc(<<"event_msg">>, <<"">>, 20)
    [] sym = "np" -> [Doc(<<"event_msg">>, NoStr, 20) EXCEPT !.hasPayload = FALSE]
    [] sym = "nt" -> Doc(<<"event_msg">>, NoStr, 20)
    [] sym = "ri" -> Doc(<<"response_item">>, <<"message">>, 20)
    [] sym = "ap" -> [Doc(<<"response_item">>, <<"function_call">>, 20)
                        EXCEPT !.name = <<"apply_patch">>, !.arguments = "escalated"]
    [] sym = "f0" -> [Doc(<<"response_item">>, <<"function_call">>, 20)
                        EXCEPT !.name = <<>>, !.arguments = "escalated"]
    [] sym = "fx" -> [Doc(<<"response_item">>, <<"function_call">>, 20)
                        EXCEPT !.arguments = "escalated"]
    [] sym = "fb" -> [Doc(<<"response_item">>, <<"function_call">>, 20)
                        EXCEPT !.name = <<"shell">>, !.arguments = "broken"]
    [] sym = "fa" -> [Doc(<<"response_item">>, <<"function_call">>, 20)
                        EXCEPT !.name = <<"shell">>]
    [] sym = "sc" -> [Doc(NoStr, NoStr, NoTs) EXCEPT !.hasPayload = FALSE]
    [] OTHER -> InvalidJson

\* Besides the records of the scenarios: an event_msg whose payload type is
\* the empty string ("e0"), is missing with the payload ("np") or is not a
\* string ("nt"); a response_item that is no function_call ("ri"); calls of
\* apply_patch ("ap"), with an empty name ("f0"), without a name ("fx"), with
\* arguments that are not JSON ("fb") or absent ("fa"); a JSON scalar ("sc").
RecordSymbols ==
  {"ts", "am", "tc", "ex", "fc", "fn", "tk",
   "e0", "np", "nt", "ri", "ap", "f0", "fx", "fb", "fa", "sc"}

\* JSON.parse(line): blanks around one record text are allowed; two record
\* texts in a row, raw characters and the empty text are not JSON.
JsonParse(line) ==
  LET t == Trim(line)
  IN IF Len(t) = 1 /\ t[1] \in RecordSymbols THEN Catalog(t[1]) ELSE InvalidJson

\* JSON.parse(payload.arguments || '{}') of a function_call record.
ParseArguments(arguments) ==
  CASE arguments = "escalated" ->
         [ok |-> TRUE, sandbox_permissions |-> <<"require_escalated">>,
          command |-> RmCommand, reason |-> NoStr, justification |-> <<"cleanup">>]
    [] arguments = "plain" ->
         [ok |-> TRUE, sandbox_permissions |-> NoStr,
          command |-> <<"ls">>, reason |-> NoStr, justification |-> NoStr]
    [] arguments = "absent" ->
         [ok |-> TRUE, sandbox_permissions |-> NoStr,
          command |-> NoStr, reason |-> NoStr, justification |-> NoStr]
    [] OTHER ->
         [ok |-> FALSE, sandbox_permissions |-> NoStr,
          command |-> NoStr, reason |-> NoStr, justification |-> NoStr]

parseEventTimestampSec(parsed) == parsed.timestamp

NoEvent ==
  [ok |-> FALSE, rawType |-> "", timestampSec |-> NoTs, tool_name |-> NoStr,
   command |-> NoStr, reason |-> NoStr, justification |-> NoStr, call_id |-> NoStr]

parseCodexEventAnyCall(line) ==
  LET parsed == JsonParse(line)
      args == ParseArguments(parsed.arguments)
  IN IF ~parsed.ok THEN NoEvent
     ELSE IF parsed.type = <<"event_msg">>
       THEN IF ~parsed.hasPayload \/ parsed.ptype = NoStr THEN NoEvent
            ELSE [ok |-> TRUE, rawType |-> parsed.ptype[1],
                  timestampSec |-> parseEventTimestampSec(parsed),
                  tool_name |-> parsed.tool_name, command |-> parsed.command,
                  reason |-> parsed.reason, justification |-> parsed.justification,
                  call_id |-> parsed.call_id]
     ELSE IF parsed.type = <<"response_item">>
       THEN IF ~parsed.hasPayload \/ parsed.ptype # <<"function_call">> THEN NoEvent
            ELSE IF parsed.name = NoStr \/ parsed.name = <<>> THEN NoEvent
            ELSE IF ~args.ok THEN NoEvent
            ELSE [ok |-> TRUE,
                  rawType |-> IF parsed.name = <<"apply_patch">>
                                THEN "apply_patch_approval_request"
                                ELSE "exec_approval_request",
                  timestampSec |-> parseEventTimestampSec(parsed),
                  tool_name |-> parsed.name, command |-> args.command,
                  reason |-> args.reason, justification |-> args.justification,
                  call_id |-> IF parsed.call_id = NoStr THEN <<>> ELSE parsed.call_id]
     ELSE NoEvent

parseCodexEvent(line) ==
  LET parsed == JsonParse(line)
      args == ParseArguments(parsed.arguments)
  IN IF ~parsed.ok THEN NoEvent
     ELSE IF parsed.type = <<"event_msg">>
       THEN IF ~parsed.hasPayload \/ parsed.ptype = NoStr THEN NoEvent
            ELSE [ok |-> TRUE, rawType |-> parsed.ptype[1],
                  timestampSec |-> parseEventTimestampSec(parsed),
                  tool_name |-> parsed.tool_name, command |-> parsed.command,
                  reason |-> parsed.reason, justification |-> parsed.justification,
                  call_id |-> parsed.call_id]
     ELSE IF parsed.type = <<"response_item">>
       THEN IF ~parsed.hasPayload \/ parsed.ptype # <<"function_call">> THEN NoEvent
            ELSE IF parsed.name = NoStr \/ parsed.name = <<>> THEN NoEvent
            ELSE IF ~args.ok THEN NoEvent
            ELSE IF args.sandbox_permissions # <<"require_escalated">> THEN NoEvent
            ELSE [ok |-> TRUE,
                  rawType |-> IF parsed.name = <<"apply_patch">>
                                THEN "apply_patch_approval_request"
                                ELSE "exec_approval_request",
                  timestampSec |-> parseEventTimestampSec(parsed),
                  tool_name |-> parsed.name, command |-> args.command,
                  reason |-> args.reason, justification |-> args.justification,
                  call_id |-> IF parsed.call_id = NoStr THEN <<>> ELSE parsed.call_id]
     ELSE NoEvent

(***************************************************************************)
(* Event names, matcher text and rule matching.                            *)
(***************************************************************************)
\* Raw types are the ones the session log producer emits; names that a plain
\* JavaScript object inherits (constructor, toString, ...) are not among the
\* modelled inputs.
CODEX_EVENT_MAP(rawType) ==
  CASE rawType = "exec_approval_request" -> <<"PermissionRequest">>
    [] rawType = "apply_patch_approval_request" -> <<"PermissionRequest">>
    [] rawType = "request_user_input" -> <<"PermissionRequest">>
    [] rawType = "task_started" -> <<"TaskStarted">>
    [] rawType = "session_configured" -> <<"TaskStarted">>
    [] rawType = "task_complete" -> <<"TaskComplete", "Stop">>
    [] rawType = "error" -> <<"ToolError">>
    [] rawType = "warning" -> <<"ToolError">>
    [] rawType = "turn_aborted" -> <<"ToolError">>
    [] rawType = "stream_error" -> <<"ToolError">>
    [] rawType = "mcp_startup_complete" -> <<"MCPStartupComplete">>
    [] OTHER -> <<>>

mapEventNamesFirstOnly(rawType) ==
  IF CODEX_EVENT_MAP(rawType) = <<>> THEN <<rawType>>
  ELSE <<Head(CODEX_EVENT_MAP(rawType)), rawType>>

mapEventNames(rawType) == CODEX_EVENT_MAP(rawType) \o <<rawType>>

Includes(seq, x) == \E i \in 1..Len(seq) : seq[i] = x

Part(value) == IF value = NoStr THEN <<>> ELSE value

\* parts.join(' '): the words of the parts that are strings, in order.
buildMatcherText(ev) ==
  <<ev.rawType>> \o Part(ev.tool_name) \o Part(ev.command) \o Part(ev.reason)
    \o Part(ev.justification) \o Part(ev.call_id)

NoMatcher == [kind |-> "none", anchored |-> FALSE, words |-> <<>>]
Regex(anchored, words) == [kind |-> "regex", anchored |-> anchored, words |-> words]
BadRegex == [kind |-> "invalid", anchored |-> FALSE, words |-> <<>>]

\* new RegExp(matcher).test(text) for a pattern that is a literal run of
\* words, anchored at the start of the text ("^...") or not.
RegExpTest(matcher, text) ==
  \E i \in 1..(Len(text) - Len(matcher.words) + 1) :
    /\ matcher.anchored => i = 1
    /\ SubSeq(text, i, i + Len(matcher.words) - 1) = matcher.words

matchesRuleFailOpen(matcher, text) ==
  CASE matcher.kind = "none" -> TRUE
    [] matcher.kind = "invalid" -> TRUE
    [] OTHER -> RegExpTest(matcher, text)

matchesRule(matcher, text) ==
  CASE matcher.kind = "none" -> TRUE
    [] matcher.kind = "invalid" -> FALSE
    [] OTHER -> RegExpTest(matcher, text)

(***************************************************************************)
(* Hook commands.  What a command does when bash runs it is the            *)
(* environment's choice; runHookCommand turns it into a result record.     *)
(***************************************************************************)
VARIABLE hookBehaviour   \* per command text: what happens when it is spawned

NoStatus == -1       \* status: null (no exit code)

\* exit0, exit1: the command exits with that code; signal: it is killed by a
\* signal; timeout: it outlives its timeout and spawnSync kills it; enoent:
\* bash cannot be spawned; throws: spawnSync itself throws.
Behaviours == {"exit0", "exit1", "signal", "timeout", "enoent", "throws"}

runHookCommand(behaviour) ==
  CASE behaviour = "throws" ->
         [ok |-> FALSE, status |-> NoStatus, signal |-> "", error |-> "thrown",
          timedOut |-> FALSE]
    [] behaviour = "exit0" ->
         [ok |-> TRUE, status |-> 0, signal |-> "", error |-> "", timedOut |-> FALSE]
    [] behaviour = "exit1" ->
         [ok |-> FALSE, status |-> 1, signal |-> "", error |-> "", timedOut |-> FALSE]
    [] behaviour = "signal" ->
         [ok |-> FALSE, status |-> NoStatus, signal |-> "SIGKILL", error |-> "",
          timedOut |-> FALSE]
    [] behaviour = "timeout" ->
         [ok |-> FALSE, status |-> NoStatus, signal |-> "SIGTERM", error |-> "ETIMEDOUT",
          timedOut |-> TRUE]
    [] behaviour = "enoent" ->
         [ok |-> FALSE, status |-> NoStatus, signal |-> "", error |-> "ENOENT",
          timedOut |-> FALSE]

(***************************************************************************)
(* The timeout of a hook command.  The value of commandDef.timeout is a    *)
(* number (finite, held in thousandths of a second; or NaN or an infinity, *)
(* which JSON.parse gives for a literal out of range), a value of another  *)
(* type, or absent.                                                        *)
(***************************************************************************)
Seconds(thousandths) == [type |-> "number", finite |-> TRUE, thousandths |-> thousandths]
NotFinite == [type |-> "number", finite |-> FALSE, thousandths |-> 0]
TextValue == [type |-> "string", finite |-> FALSE, thousandths |-> 0]
Undefined == [type |-> "undefined", finite |-> FALSE, thousandths |-> 0]

\* Number.isFinite(value): a number that is neither NaN nor an infinity; no
\* value of another type is converted.
NumberIsFinite(value) == value.type = "number" /\ value.finite

MathMax(a, b) == IF a >= b THEN a ELSE b

\* Line 1327: the timeout of a command in seconds (here in thousandths).
hookTimeoutSec(commandDef) ==
  IF NumberIsFinite(commandDef.timeout) THEN commandDef.timeout.thousandths ELSE 10 * 1000

spawnTimeoutMsNoFloor(timeoutSec) == (timeoutSec * 1000) \div 1000

\* Line 1263: the timeout option of spawnSync, in milliseconds.
spawnTimeoutMs(timeoutSec) == (MathMax(1 * 1000, timeoutSec) * 1000) \div 1000

(***************************************************************************)
(* The manifest: plugin sources, then top-level sources.                   *)
(***************************************************************************)
Command(id) == [command |-> id, timeout |-> Seconds(10 * 1000)]
TimedCommand(id, timeout) == [command |-> id, timeout |-> timeout]
Rule(eventName, matcher, commands) ==
  [eventName |-> eventName, matcher |-> matcher, commands |-> commands]

\* The manifest of the bridge test (a Stop rule and a TaskComplete rule of
\* one plugin), extended by rules on the raw type and by permission rules
\* with the matchers of the matcher-gating scenario.
DemoManifest ==
  [plugins |->
     << [id |-> "home:demo-stop-plugin",
         events |-> << Rule("Stop", NoMatcher, <<Command("stop")>>),
                       Rule("TaskComplete", NoMatcher, <<Command("complete")>>),
                       Rule("PermissionRequest", Regex(TRUE, <<"deploy">>),
                            <<Command("deploy")>>),
                       Rule("PermissionRequest", BadRegex, <<Command("bad")>>),
                       Rule("PermissionRequest", Regex(FALSE, <<"rm", "-rf">>),
                            <<Command("rm")>>) >>] >>,
   topHooks |->
     << [id |-> "top:hooks",
         events |-> << Rule("task_complete", NoMatcher, <<Command("raw")>>),
                       Rule("PermissionRequest", NoMatcher, <<Command("ask")>>),
                       Rule("PermissionRequest", Regex(TRUE, <<"exec_approval_request", "rm">>),
                            <<Command("exec-rm")>>) >>] >>]

EmptyManifest == [plugins |-> <<>>, topHooks |-> <<>>]

\* A manifest with two plugin sources and one top-level source, with rules of
\* two commands, and with rules of the three sources subscribed to the names
\* of the same event.
OrderManifest ==
  [plugins |->
     << [id |-> "home:first-plugin",
         events |-> << Rule("TaskComplete", NoMatcher, <<Command("notify"), Command("log")>>),
                       Rule("TaskStarted", NoMatcher, <<Command("greet")>>),
                       Rule("Stop", NoMatcher, <<Command("cleanup")>>) >>],
        [id |-> "home:second-plugin",
         events |-> << Rule("Stop", NoMatcher, <<Command("second")>>),
                       Rule("task_started", NoMatcher, <<Command("begin")>>) >>] >>,
   topHooks |->
     << [id |-> "top:hooks",
         events |-> << Rule("task_complete", NoMatcher, <<Command("top1"), Command("top2")>>),
                       Rule("TaskStarted", NoMatcher, <<Command("top3")>>) >>] >>]

\* The manifest file on disk: absent, blank, not JSON, the JSON null, a JSON
\* scalar, or a JSON object or array whose plugins and topHooks members are
\* arrays of hook sources or anything else.
Member(isArray, items) == [isArray |-> isArray, items |-> items]
NoMember == Member(FALSE, <<>>)
ManifestFile(kind, plugins, topHooks) ==
  [kind |-> kind, plugins |-> plugins, topHooks |-> topHooks]
ObjectFile(m) == ManifestFile("object", Member(TRUE, m.plugins), Member(TRUE, m.topHooks))
OtherFile(kind) == ManifestFile(kind, NoMember, NoMember)

\* readJsonIfExists(filePath): null for a missing or blank file, the parsed
\* value otherwise; JSON.parse failing is thrown on.
readJsonIfExistsLenient(file) ==
  IF file.kind \in {"absent", "blank", "invalid"}
    THEN [threw |-> FALSE, isNull |-> TRUE, value |-> file]
    ELSE [threw |-> FALSE, isNull |-> file.kind = "null", value |-> file]

readJsonIfExists(file) ==
  IF file.kind \in {"absent", "blank"}
    THEN [threw |-> FALSE, isNull |-> TRUE, value |-> file]
  ELSE IF file.kind = "invalid"
    THEN [threw |-> TRUE, isNull |-> FALSE, value |-> file]
  ELSE [threw |-> FALSE, isNull |-> file.kind = "null", value |-> file]

\* readManifest(codexHome), for a file readJsonIfExists returns from.
readManifest(file) ==
  LET read == readJsonIfExists(file)
  IN IF read.isNull \/ read.value.kind # "object"
       THEN EmptyManifest
       ELSE [plugins |-> IF read.value.plugins.isArray
                           THEN read.value.plugins.items ELSE <<>>,
             topHooks |-> IF read.value.topHooks.isArray
                            THEN read.value.topHooks.items ELSE <<>>]

\* The command texts of the manifests of the model.
CommandTexts ==
  {"stop", "complete", "deploy", "bad", "rm", "ask", "exec-rm", "raw",
   "notify", "log", "greet", "cleanup", "second", "begin", "top1", "top2", "top3"}

\* Every command exits with code 0.
AllSucceed == [c \in CommandTexts |-> "exit0"]

\* The commands whose behaviour the hook scenarios vary.
FlakyCommands == {"stop", "complete", "raw"}

Manifests == {DemoManifest, EmptyManifest}

getAllHookSourcesTopFirst(manifest) == manifest.topHooks \o manifest.plugins

getAllHookSources(manifest) == manifest.plugins \o manifest.topHooks

RECURSIVE Concat(_)
Concat(seqs) == IF seqs = <<>> THEN <<>> ELSE Head(seqs) \o Concat(Tail(seqs))

RuleCommandsTwice(source, eventDef, ev, evIndex) ==
  IF /\ Includes(mapEventNames(ev.rawType), eventDef.eventName)
     /\ matchesRule(eventDef.matcher, buildMatcherText(ev))
    THEN [i \in 1..(2 * Len(eventDef.commands)) |->
            [ev |-> evIndex, source |-> source.id, eventName |-> eventDef.eventName,
             matcher |-> eventDef.matcher,
             command |-> eventDef.commands[((i - 1) % Len(eventDef.commands)) + 1].command,
             timeoutMs |-> spawnTimeoutMs(hookTimeoutSec(
               eventDef.commands[((i - 1) % Len(eventDef.commands)) + 1])),
             result |-> runHookCommand(
               hookBehaviour[eventDef.commands[((i - 1) % Len(eventDef.commands)) + 1].command])]]
    ELSE <<>>

\* The commands one rule contributes to the dispatch of one event, each with
\* the result runHookCommand returns for it.
RuleCommands(source, eventDef, ev, evIndex) ==
  IF /\ Includes(mapEventNames(ev.rawType), eventDef.eventName)
     /\ matchesRule(eventDef.matcher, buildMatcherText(ev))
    THEN [i \in 1..Len(eventDef.commands) |->
            [ev |-> evIndex, source |-> source.id, eventName |-> eventDef.eventName,
             matcher |-> eventDef.matcher, command |-> eventDef.commands[i].command,
             timeoutMs |-> spawnTimeoutMs(hookTimeoutSec(eventDef.commands[i])),
             result |-> runHookCommand(hookBehaviour[eventDef.commands[i].command])]]
    ELSE <<>>

\* The commands up to and including the first one that did not succeed.
RECURSIVE UntilFailure(_)
UntilFailure(runs) ==
  IF runs = <<>> THEN <<>>
  ELSE IF ~Head(runs).result.ok THEN <<Head(runs)>>
  ELSE <<Head(runs)>> \o UntilFailure(Tail(runs))

executeEventAbortsOnFailure(manifest, ev, evIndex) ==
  LET sources == getAllHookSources(manifest)
  IN UntilFailure(Concat([s \in 1..Len(sources) |->
       Concat([r \in 1..Len(sources[s].events) |->
         RuleCommands(sources[s], sources[s].events[r], ev, evIndex)])]))

\* executeEvent: the hook commands run for one event, in the order run.
executeEvent(manifest, ev, evIndex) ==
  LET sources == getAllHookSources(manifest)
  IN Concat([s \in 1..Len(sources) |->
       Concat([r \in 1..Len(sources[s].events) |->
         RuleCommands(sources[s], sources[s].events[r], ev, evIndex)])])

StopEvent == [NoEvent EXCEPT !.ok = TRUE, !.rawType = "Stop"]

(***************************************************************************)
(* The dedup cache: a JavaScript Map, i.e. entries in insertion order;     *)
(* setting an existing key keeps its place.                                *)
(***************************************************************************)
VARIABLE recentMax   \* the capacity of the cache in this run: RECENT_EVENT_MAX, scaled

KeyIndex(recentEvents, signature) ==
  IF \E i \in 1..Len(recentEvents) : recentEvents[i].key = signature
    THEN CHOOSE i \in 1..Len(recentEvents) : recentEvents[i].key = signature
    ELSE 0

\* The for-of loop of recordAndCheckDuplicateEvent: entries are deleted from
\* the front while they are expired or the map is still over capacity.
RECURSIVE EvictExpiredOnly(_, _)
EvictExpiredOnly(entries, nowMs) ==
  IF entries = <<>> THEN <<>>
  ELSE IF (nowMs - entries[1].seenAt) > RECENT_EVENT_TTL_MS
    THEN EvictExpiredOnly(Tail(entries), nowMs)
    ELSE entries

RECURSIVE Evict(_, _)
Evict(entries, nowMs) ==
  IF entries = <<>> THEN <<>>
  ELSE IF (nowMs - entries[1].seenAt) > RECENT_EVENT_TTL_MS \/ Len(entries) > recentMax
    THEN Evict(Tail(entries), nowMs)
    ELSE entries

recordAndCheckNoRefresh(recentEvents, signature, nowMs) ==
  LET idx == KeyIndex(recentEvents, signature)
  IN [recent |-> IF idx > 0 THEN recentEvents
                 ELSE Append(recentEvents, [key |-> signature, seenAt |-> nowMs]),
      dup |-> idx > 0 /\ (nowMs - recentEvents[idx].seenAt) <= RECENT_EVENT_TTL_MS]

recordAndCheckDuplicateEvent(recentEvents, signature, nowMs) ==
  LET idx == KeyIndex(recentEvents, signature)
      afterSet == IF idx > 0 THEN [recentEvents EXCEPT ![idx].seenAt = nowMs]
                  ELSE Append(recentEvents, [key |-> signature, seenAt |-> nowMs])
      trimmed == IF Len(afterSet) > recentMax THEN Evict(afterSet, nowMs)
                 ELSE afterSet
  IN [recent |-> trimmed,
      dup |-> idx > 0 /\ (nowMs - recentEvents[idx].seenAt) <= RECENT_EVENT_TTL_MS]

(***************************************************************************)
(* State.                                                                  *)
(***************************************************************************)
VARIABLES
  lockOwner,     \* the process that created the file now at the lock path; 0: no file
  lockPid,       \* the PID written in that file; NoPid: nothing written yet
  pc,            \* each process's position
  mode,          \* "watch" | "once"
  since,         \* options.since; NoSince: not given
  emitStop,      \* options.emitStop
  existingPid,   \* the PID acquireWatchLock / release last read from the lock file
  sigPending,    \* a termination signal has arrived, its handler has not run yet
  stopping,      \* the stop flag of watch()
  offsets,       \* state.offsets: per process, per file; NoEntry: not in the map
  remainders,    \* state.remainders
  recentEvents,  \* state.recentEvents, in insertion order
  todo,          \* the files of the current pass not yet processed
  fileContent,   \* the bytes of each session file
  visible,       \* the session files that exist
  now,           \* Date.now()
  ticks,         \* clock advances so far
  manifestFile,  \* the manifest file on disk
  manifest,      \* the manifest read at start
  debugLog,      \* the debug log: whether it is written, and its records in order
  reaped,        \* history: per process, what its cleanupCompetingWatchers read and signalled
  disk,          \* the file tree the sync tool reads and writes
  syncLog,       \* history: the last run of the sync tool
  sessions,      \* the directory tree at the sessions root, as the locator walks it
  located,       \* history: the last call of the locator on that tree
  rewrite,       \* history: the last call of applyManagedBlock and the config text it left
  decided,       \* history: per process, the lines decided so far, in order
  ran,           \* history: per process, the hook commands run so far, in order
  lastSkip,      \* history: <<file, size>> if p's latest processSessionFile returned at line 1422
  sigSeen,       \* history: the size of each session file when p's stop flag was set
  startedStale,  \* history: the lock recorded a dead PID when p began to acquire
  contended,     \* history: another process changed the lock file since p began
  outcome,       \* history: how p's acquireWatchLock ended (its watch-lock-* record)
  mutated        \* history: p created, wrote or deleted a lock file

lockVars == <<lockOwner, lockPid>>
procVars == <<pc, mode, since, emitStop, existingPid, sigPending, stopping>>
runVars == <<offsets, remainders, recentEvents, todo>>
envVars == <<fileContent, visible, now, ticks, manifestFile, hookBehaviour>>
histVars == <<decided, ran, lastSkip, sigSeen>>
ghostVars == <<startedStale, contended, outcome, mutated>>
logVars == <<debugLog, reaped>>
toolVars == <<disk, syncLog, sessions, located, rewrite>>
vars == <<lockVars, procVars, runVars, envVars, manifest, logVars, toolVars, recentMax,
          histVars, ghostVars>>

NoSince == 0
NoEntry == -1
NoSnapshot == [f \in Files |-> NoEntry]   \* the stop flag has not been set

(***************************************************************************)
(* Session log locator and tailer.                                         *)
(***************************************************************************)
RECURSIVE SortedSeq(_)
SortedSeq(set) ==
  IF set = {} THEN <<>>
  ELSE LET m == CHOOSE x \in set : \A y \in set : x <= y
       IN <<m>> \o SortedSeq(set \ {m})

\* The model's files all carry a modification time at or after the floor.
collectSessionFiles == SortedSeq(visible)

primeSessionOffsetsReset(files, offs) ==
  [f \in Files |-> IF Includes(files, f) THEN 0 ELSE offs[f]]

primeSessionOffsets(files, offs) ==
  [f \in Files |-> IF Includes(files, f) /\ offs[f] = NoEntry THEN 0 ELSE offs[f]]

\* Lines 1412-1419: the offset to read from.
StartOffsetRewind(stored, size) ==
  LET off == IF stored = NoEntry THEN 0 ELSE stored
  IN IF size <= off THEN 0 ELSE off

StartOffset(stored, size) ==
  LET off == IF stored = NoEntry THEN 0 ELSE stored
  IN IF size < off THEN 0 ELSE off

\* Line 1431: the text split into lines.
TailTextNoRemainder(remainder, chunk) == Utf8Decode(chunk)

TailText(remainder, chunk) == remainder \o Utf8Decode(chunk)

\* Lines 1445-1452, the since filter of one parsed event.
SinceFilteredNoTimestamp(sinceEpochSec, ev) ==
  /\ sinceEpochSec # NoSince
  /\ sinceEpochSec > 0
  /\ (ev.timestampSec = NoTs \/ ev.timestampSec < sinceEpochSec)

SinceFiltered(sinceEpochSec, ev) ==
  /\ sinceEpochSec # NoSince
  /\ sinceEpochSec > 0
  /\ ev.timestampSec # NoTs
  /\ ev.timestampSec < sinceEpochSec

Verdict(f, line, verdict, nowMs) ==
  [file |-> f, line |-> line, verdict |-> verdict, at |-> nowMs]

DecideLineRecordsAll(line, acc, f, nowMs, sinceEpochSec, man) ==
  LET ev == parseCodexEvent(line)
      chk == recordAndCheckDuplicateEvent(acc.recent, line, nowMs)
      idx == Len(acc.decided) + 1
  IN IF Trim(line) = <<>>
       THEN [acc EXCEPT !.decided = Append(@, Verdict(f, line, "blank", nowMs))]
     ELSE IF ~ev.ok
       THEN [acc EXCEPT !.decided = Append(@, Verdict(f, line, "unparsed", nowMs))]
     ELSE IF SinceFiltered(sinceEpochSec, ev)
       THEN [acc EXCEPT !.recent = chk.recent,
                        !.decided = Append(@, Verdict(f, line, "filtered", nowMs))]
     ELSE IF chk.dup
       THEN [acc EXCEPT !.recent = chk.recent,
                        !.decided = Append(@, Verdict(f, line, "deduped", nowMs))]
     ELSE [recent |-> chk.recent,
           decided |-> Append(acc.decided, Verdict(f, line, "dispatched", nowMs)),
           ran |-> acc.ran \o executeEvent(man, ev, idx)]

\* Lines 1435-1463: one iteration of the loop over the complete lines.
DecideLine(line, acc, f, nowMs, sinceEpochSec, man) ==
  LET ev == parseCodexEvent(line)
      chk == recordAndCheckDuplicateEvent(acc.recent, line, nowMs)
      idx == Len(acc.decided) + 1
  IN IF Trim(line) = <<>>
       THEN [acc EXCEPT !.decided = Append(@, Verdict(f, line, "blank", nowMs))]
     ELSE IF ~ev.ok
       THEN [acc EXCEPT !.decided = Append(@, Verdict(f, line, "unparsed", nowMs))]
     ELSE IF SinceFiltered(sinceEpochSec, ev)
       THEN [acc EXCEPT !.decided = Append(@, Verdict(f, line, "filtered", nowMs))]
     ELSE IF chk.dup
       THEN [acc EXCEPT !.recent = chk.recent,
                        !.decided = Append(@, Verdict(f, line, "deduped", nowMs))]
     ELSE [recent |-> chk.recent,
           decided |-> Append(acc.decided, Verdict(f, line, "dispatched", nowMs)),
           ran |-> acc.ran \o executeEvent(man, ev, idx)]

RECURSIVE ProcessLines(_, _, _, _, _, _)
ProcessLines(lines, acc, f, nowMs, sinceEpochSec, man) ==
  IF lines = <<>> THEN acc
  ELSE ProcessLines(Tail(lines), DecideLine(Head(lines), acc, f, nowMs, sinceEpochSec, man),
                    f, nowMs, sinceEpochSec, man)

\* processSessionFile(filePath, state, manifest, ...) of process p.
processSessionFile(p, f) ==
  LET size == Len(fileContent[f])
      stored == IF offsets[p][f] = NoEntry THEN 0 ELSE offsets[p][f]
      currentOffset == StartOffset(offsets[p][f], size)
      remainder == IF size < stored THEN <<>> ELSE remainders[p][f]
      chunk == SubSeq(fileContent[f], currentOffset + 1, size)
      lines == SplitLines(TailText(remainder, chunk))
      acc == ProcessLines(Front(lines),
                          [recent |-> recentEvents[p], decided |-> decided[p], ran |-> ran[p]],
                          f, now, since[p], manifest)
  IN IF size = currentOffset
       THEN /\ lastSkip' = [lastSkip EXCEPT ![p] = <<f, size>>]
            /\ UNCHANGED <<offsets, remainders, recentEvents, decided, ran, sigSeen>>
       ELSE /\ offsets' = [offsets EXCEPT ![p][f] = size]
            /\ remainders' = [remainders EXCEPT ![p][f] = Last(lines)]
            /\ recentEvents' = [recentEvents EXCEPT ![p] = acc.recent]
            /\ decided' = [decided EXCEPT ![p] = acc.decided]
            /\ ran' = [ran EXCEPT ![p] = acc.ran]
            /\ lastSkip' = [lastSkip EXCEPT ![p] = <<>>]
            /\ UNCHANGED sigSeen

(***************************************************************************)
(* The watch lock.                                                         *)
(***************************************************************************)
\* process.kill(pid, 0) succeeds: the process exists.
isProcessAliveAlways(pid) == TRUE

isProcessAlive(pid) ==
  /\ pid # NoPid
  /\ pid \in Procs
  /\ pc[pid] \notin {"idle", "done", "dead"}

\* The lock file holds nothing (NoPid) or the JSON descriptor of one PID.
parseWatchLockPid(rawText) == rawText

\* A change of the lock file by p: every other process is contended.
Touch(p) ==
  /\ mutated' = [mutated EXCEPT ![p] = TRUE]
  /\ contended' = [q \in Procs |-> IF q = p THEN contended[q] ELSE TRUE]

\* The process with this PID has ended (history only; the code probes with
\* isProcessAlive).
Exited(pid) == pid = StalePid \/ (pid \in Procs /\ pc[pid] \in {"done", "dead"})

\* fs.openSync(lockPath, 'wx') of writeLock: succeeds iff no file is there.
CreateLock(p, onCreated, onExists) ==
  IF lockOwner = 0
    THEN /\ lockOwner' = p
         /\ lockPid' = NoPid
         /\ pc' = [pc EXCEPT ![p] = onCreated]
         /\ mutated' = [mutated EXCEPT ![p] = TRUE]
    ELSE /\ pc' = [pc EXCEPT ![p] = onExists]
         /\ UNCHANGED <<lockVars, mutated>>

\* fs.writeFileSync(fd, payload): the descriptor is written to the file p
\* created, whether or not that file is still the one at the lock path.
WriteLock(p, result) ==
  /\ IF lockOwner = p
       THEN /\ lockPid' = p
            /\ UNCHANGED lockOwner
            /\ Touch(p)
       ELSE UNCHANGED <<lockVars, mutated, contended>>
  /\ outcome' = [outcome EXCEPT ![p] = result]
  /\ pc' = [pc EXCEPT ![p] = "acquired"]

(***************************************************************************)
(* The debug log and the reaper of competing watchers.                     *)
(*                                                                         *)
(* Of the records of the log the model keeps those the reaper tells apart: *)
(* bridge-start and bridge-stop, with their mode and target.  The logs of  *)
(* the model are shorter than the tail the reaper reads.                   *)
(***************************************************************************)
OwnHome == "home"
OwnProject == "proj"

LogRecord(pid, ts, kind, m, home, project) ==
  [pid |-> pid, ts |-> ts, kind |-> kind, mode |-> m, codexHome |-> home,
   projectRoot |-> project]

\* logDebug(kind, data) of process p: appends when a log path is set; a write
\* that fails (for the processes of debugLog.fails every write does) is
\* swallowed and leaves the log as it is.
WriteLog(p, kind, m) ==
  IF debugLog.on /\ p \notin debugLog.fails
    THEN [debugLog EXCEPT !.records =
            Append(@, LogRecord(p, now, kind, m,
                                IF kind = "bridge-start" THEN OwnHome ELSE "",
                                IF kind = "bridge-start" THEN OwnProject ELSE ""))]
    ELSE debugLog

\* parseLogTimestampMs(record.ts) || 0
LogTsMs(rec) == IF rec.ts = NoTs THEN 0 ELSE rec.ts

NewPidState ==
  [lastTsMs |-> 0, isWatch |-> FALSE, isStopped |-> FALSE, codexHome |-> "",
   projectRoot |-> ""]

\* Lines 1094-1109: one record applied to the state of its PID.
ReplayRecord(state, rec) ==
  LET seen == [state EXCEPT !.lastTsMs = IF LogTsMs(rec) > @ THEN LogTsMs(rec) ELSE @]
  IN IF rec.kind = "bridge-start" /\ rec.mode = "watch"
       THEN [seen EXCEPT !.isWatch = TRUE, !.isStopped = FALSE,
                         !.codexHome = rec.codexHome, !.projectRoot = rec.projectRoot]
     ELSE IF rec.kind = "bridge-stop" /\ rec.mode = "watch"
       THEN [seen EXCEPT !.isStopped = TRUE]
     ELSE seen

\* Lines 1063-1110: the records of one PID replayed in order.
RECURSIVE ReplayPid(_, _, _)
ReplayPid(records, pid, state) ==
  IF records = <<>> THEN state
  ELSE ReplayPid(Tail(records), pid,
                 IF Head(records).pid = pid THEN ReplayRecord(state, Head(records))
                 ELSE state)

TrackedPidsWithOwn(records, self) ==
  {pid \in {records[i].pid : i \in 1..Len(records)} : pid > 0}

\* The keys of pidState: the PIDs of the log other than the reader's own.
TrackedPids(records, self) ==
  {pid \in {records[i].pid : i \in 1..Len(records)} : pid > 0 /\ pid # self}

\* Lines 1113-1141: the PIDs cleanupCompetingWatchers sends SIGTERM to.
ReaperTargets(records, self, home, project, nowMs) ==
  {pid \in TrackedPids(records, self) :
     LET state == ReplayPid(records, pid, NewPidState)
     IN /\ state.isWatch
        /\ ~state.isStopped
        /\ state.codexHome = home
        /\ state.projectRoot = project
        /\ ~(nowMs - state.lastTsMs > WATCH_CLEANUP_ACTIVITY_WINDOW_MS)}

StartAlwaysWatches(p, m, s, e) ==
  /\ pc[p] = "idle"
  /\ mode' = [mode EXCEPT ![p] = m]
  /\ since' = [since EXCEPT ![p] = s]
  /\ emitStop' = [emitStop EXCEPT ![p] = e]
  /\ IF readJsonIfExists(manifestFile).threw
       THEN /\ pc' = [pc EXCEPT ![p] = "abort"]
            /\ UNCHANGED <<todo, manifest, debugLog>>
       ELSE /\ pc' = [pc EXCEPT ![p] = IF debugLog.on THEN "reap" ELSE "open1"]
            /\ manifest' = readManifest(manifestFile)
            /\ debugLog' = WriteLog(p, "bridge-start", m)
            /\ UNCHANGED todo
  /\ UNCHANGED <<lockVars, existingPid, sigPending, stopping, offsets, remainders,
                 recentEvents, envVars, reaped, toolVars, recentMax, histVars, ghostVars>>

\* Start of a bridge process: main() with the parsed options.
Start(p, m, s, e) ==
  /\ pc[p] = "idle"
  /\ mode' = [mode EXCEPT ![p] = m]
  /\ since' = [since EXCEPT ![p] = s]
  /\ emitStop' = [emitStop EXCEPT ![p] = e]
  /\ IF readJsonIfExists(manifestFile).threw
       THEN /\ pc' = [pc EXCEPT ![p] = "abort"]
            /\ UNCHANGED <<todo, manifest, debugLog>>
     ELSE IF m = "watch"
       THEN /\ pc' = [pc EXCEPT ![p] = IF debugLog.on THEN "reap" ELSE "open1"]
            /\ manifest' = readManifest(manifestFile)
            /\ debugLog' = WriteLog(p, "bridge-start", m)
            /\ UNCHANGED todo
       ELSE /\ pc' = [pc EXCEPT ![p] = "oncepass"]
            /\ manifest' = readManifest(manifestFile)
            /\ debugLog' = WriteLog(p, "bridge-start", m)
            /\ todo' = [todo EXCEPT ![p] = collectSessionFiles]
  /\ UNCHANGED <<lockVars, existingPid, sigPending, stopping, offsets, remainders,
                 recentEvents, envVars, reaped, toolVars, recentMax, histVars, ghostVars>>

\* The keys of pidState in the order of the Map: the tracked PIDs by their
\* first record in the log.
RECURSIVE PidOrder(_, _, _)
PidOrder(records, self, seen) ==
  IF records = <<>> THEN <<>>
  ELSE LET pid == Head(records).pid
       IN IF pid > 0 /\ pid # self /\ pid \notin seen
            THEN <<pid>> \o PidOrder(Tail(records), self, seen \cup {pid})
            ELSE PidOrder(Tail(records), self, seen)

RECURSIVE SignalUntilFailure(_, _)
SignalUntilFailure(candidates, exists) ==
  IF candidates = <<>> THEN <<>>
  ELSE IF Head(candidates) \notin exists THEN <<[pid |-> Head(candidates), sent |-> FALSE]>>
  ELSE <<[pid |-> Head(candidates), sent |-> TRUE]>>
         \o SignalUntilFailure(Tail(candidates), exists)

\* Lines 1113-1141: process.kill(pid, 'SIGTERM') for every candidate in turn;
\* it throws for a PID that does not exist, which is logged as a skip.
SignalAll(candidates, exists) ==
  [k \in 1..Len(candidates) |-> [pid |-> candidates[k], sent |-> candidates[k] \in exists]]

\* A process of the model exists from its start to its end.
ExistingProcs == {q \in Procs : pc[q] \notin {"idle", "done", "dead"}}

\* Line 1536: cleanupCompetingWatchers, between the bridge-start record and
\* the lock.  Without a log path it returns at once (Start goes on to the
\* lock).  What it reads and the PIDs it signals are kept as history.
\* The PIDs of the log other than the PIDs of the model are of processes that
\* exist or not when signalled.  A process of the model that is signalled
\* before watch() has installed its handlers (lines 1548-1549) dies of the
\* signal; one that has installed them has its stop flag set when it next
\* awaits.
HandlersInstalled(q) ==
  pc[q] \in {"looptop", "pass", "sleep", "relRead", "relUnlink", "relReadX", "relUnlinkX",
             "stopLog", "abort"}

Reap(p) ==
  /\ pc[p] = "reap"
  /\ \E targets \in {ReaperTargets(debugLog.records, p, OwnHome, OwnProject, now)} :
     \E alive \in SUBSET (targets \ Procs) :
     \E killed \in {{q \in targets \cap ExistingProcs : ~HandlersInstalled(q)}} :
     \E flagged \in {{q \in targets \cap ExistingProcs : HandlersInstalled(q)}} :
       /\ reaped' = [reaped EXCEPT ![p] =
            << [pids |-> targets,
                signals |-> SignalAll(
                  SelectSeq(PidOrder(debugLog.records, p, {}), LAMBDA pid : pid \in targets),
                  alive \cup ExistingProcs),
                log |-> debugLog.records,
                at |-> now] >>]
       /\ pc' = [q \in Procs |-> IF q = p THEN "open1"
                                  ELSE IF q \in killed THEN "dead" ELSE pc[q]]
       /\ sigPending' = [q \in Procs |-> IF q \in killed THEN FALSE
                                          ELSE IF q \in flagged THEN TRUE ELSE sigPending[q]]
       /\ sigSeen' = [q \in Procs |->
            IF q \in killed THEN NoSnapshot
            ELSE IF q \in flagged /\ ~sigPending[q]
              THEN [f \in Files |-> IF f \in visible THEN Len(fileContent[f]) ELSE NoEntry]
            ELSE sigSeen[q]]
       /\ existingPid' = [q \in Procs |-> IF q \in killed THEN NoPid ELSE existingPid[q]]
       /\ stopping' = [q \in Procs |-> IF q \in killed THEN FALSE ELSE stopping[q]]
       /\ offsets' = [q \in Procs |-> IF q \in killed THEN [f \in Files |-> NoEntry]
                                       ELSE offsets[q]]
       /\ remainders' = [q \in Procs |-> IF q \in killed THEN [f \in Files |-> <<>>]
                                          ELSE remainders[q]]
       /\ recentEvents' = [q \in Procs |-> IF q \in killed THEN <<>> ELSE recentEvents[q]]
       /\ todo' = [q \in Procs |-> IF q \in killed THEN <<>> ELSE todo[q]]
       /\ lastSkip' = [q \in Procs |-> IF q \in killed THEN <<>> ELSE lastSkip[q]]
  /\ UNCHANGED <<lockVars, mode, since, emitStop, envVars, manifest, debugLog, toolVars,
                 recentMax, decided, ran, ghostVars>>

\* Line 1198: the first writeLock(), up to openSync.
Open1(p) ==
  /\ pc[p] = "open1"
  /\ CreateLock(p, "write1", "read")
  /\ startedStale' = [startedStale EXCEPT ![p] =
                        lockOwner # 0 /\ lockPid # NoPid /\ Exited(lockPid)]
  /\ contended' = [q \in Procs |-> IF q = p THEN FALSE
                                    ELSE IF lockOwner = 0 THEN TRUE ELSE contended[q]]
  /\ UNCHANGED <<mode, since, emitStop, existingPid, sigPending, stopping, runVars,
                 envVars, manifest, logVars, toolVars, recentMax, histVars, outcome>>

Write1(p) ==
  /\ pc[p] = "write1"
  /\ WriteLock(p, "acquired")
  /\ UNCHANGED <<mode, since, emitStop, existingPid, sigPending, stopping, runVars,
                 envVars, manifest, logVars, toolVars, recentMax, histVars, startedStale>>

\* Lines 1207-1208: readFileSync and parseWatchLockPid; a missing file throws
\* and leaves stale = true.
ReadLock(p) ==
  /\ pc[p] = "read"
  /\ IF lockOwner = 0
       THEN /\ existingPid' = [existingPid EXCEPT ![p] = NoPid]
            /\ pc' = [pc EXCEPT ![p] = "unlink"]
       ELSE /\ existingPid' = [existingPid EXCEPT ![p] = parseWatchLockPid(lockPid)]
            /\ pc' = [pc EXCEPT ![p] = "probe"]
  /\ UNCHANGED <<lockVars, mode, since, emitStop, sigPending, stopping, runVars,
                 envVars, manifest, logVars, toolVars, recentMax, histVars, ghostVars>>

\* Lines 1539-1541: where watch() goes when acquireWatchLock returns null.
AfterBusyProceeds == "acquired"

AfterBusy == "done"

\* Lines 1209-1217: the liveness probe and the busy return.
Probe(p) ==
  /\ pc[p] = "probe"
  /\ IF isProcessAlive(existingPid[p])
       THEN /\ pc' = [pc EXCEPT ![p] = AfterBusy]
            /\ outcome' = [outcome EXCEPT ![p] = "busy-live"]
       ELSE /\ pc' = [pc EXCEPT ![p] = "unlink"]
            /\ UNCHANGED outcome
  /\ UNCHANGED <<lockVars, mode, since, emitStop, existingPid, sigPending, stopping,
                 runVars, envVars, manifest, logVars, toolVars, recentMax, histVars, startedStale, contended, mutated>>

\* Line 1220: unlinkSync of the lock judged stale; a missing file throws and
\* the call ends busy.
Unlink(p) ==
  /\ pc[p] = "unlink"
  /\ IF lockOwner = 0
       THEN /\ pc' = [pc EXCEPT ![p] = AfterBusy]
            /\ outcome' = [outcome EXCEPT ![p] = "busy-race"]
            /\ UNCHANGED <<lockVars, mutated, contended>>
       ELSE /\ lockOwner' = 0
            /\ lockPid' = NoPid
            /\ pc' = [pc EXCEPT ![p] = "open2"]
            /\ Touch(p)
            /\ UNCHANGED outcome
  /\ UNCHANGED <<mode, since, emitStop, existingPid, sigPending, stopping, runVars,
                 envVars, manifest, logVars, toolVars, recentMax, histVars, startedStale>>

Open2Retries(p) ==
  /\ pc[p] = "open2"
  /\ CreateLock(p, "write2", "read")
  /\ contended' = [q \in Procs |-> IF q # p /\ lockOwner = 0 THEN TRUE ELSE contended[q]]
  /\ UNCHANGED <<mode, since, emitStop, existingPid, sigPending, stopping, runVars,
                 envVars, manifest, logVars, toolVars, recentMax, histVars, startedStale, outcome>>

\* Line 1221: the retry; EEXIST is caught and the call ends busy.
Open2(p) ==
  /\ pc[p] = "open2"
  /\ CreateLock(p, "write2", AfterBusy)
  /\ contended' = [q \in Procs |-> IF q # p /\ lockOwner = 0 THEN TRUE ELSE contended[q]]
  /\ outcome' = [outcome EXCEPT ![p] = IF lockOwner = 0 THEN @ ELSE "busy-race"]
  /\ UNCHANGED <<mode, since, emitStop, existingPid, sigPending, stopping, runVars,
                 envVars, manifest, logVars, toolVars, recentMax, histVars, startedStale>>

Write2(p) ==
  /\ pc[p] = "write2"
  /\ WriteLock(p, "recovered")
  /\ UNCHANGED <<mode, since, emitStop, existingPid, sigPending, stopping, runVars,
                 envVars, manifest, logVars, toolVars, recentMax, histVars, startedStale>>

(***************************************************************************)
(* watch(): the loop, the stop flag and the release closure.               *)
(***************************************************************************)
\* Lines 1543-1553: handlers installed, offsets primed for the files visible.
WatchInit(p) ==
  /\ pc[p] = "acquired"
  /\ offsets' = [offsets EXCEPT ![p] = primeSessionOffsets(collectSessionFiles, @)]
  /\ pc' = [pc EXCEPT ![p] = "looptop"]
  /\ UNCHANGED <<lockVars, mode, since, emitStop, existingPid, sigPending, stopping,
                 remainders, recentEvents, todo, envVars, manifest, logVars, toolVars, recentMax, histVars, ghostVars>>

\* Lines 1558-1559: the files of this pass are located and primed.
LoopTop(p) ==
  /\ pc[p] = "looptop"
  /\ offsets' = [offsets EXCEPT ![p] = primeSessionOffsets(collectSessionFiles, @)]
  /\ todo' = [todo EXCEPT ![p] = collectSessionFiles]
  /\ pc' = [pc EXCEPT ![p] = "pass"]
  /\ UNCHANGED <<lockVars, mode, since, emitStop, existingPid, sigPending, stopping,
                 remainders, recentEvents, envVars, manifest, logVars, toolVars, recentMax, histVars, ghostVars>>

\* Lines 1560-1562 and 1495-1497: the next file of the pass is processed.
PollFile(p) ==
  /\ pc[p] \in {"pass", "oncepass"}
  /\ todo[p] # <<>>
  /\ Head(todo[p]) \in visible
  /\ processSessionFile(p, Head(todo[p]))
  /\ todo' = [todo EXCEPT ![p] = Tail(@)]
  /\ UNCHANGED <<lockVars, procVars, envVars, manifest, logVars, toolVars, recentMax, ghostVars>>

\* Lines 1564-1568: after the pass, leave the loop if stopping, else sleep.
PassEnd(p) ==
  /\ pc[p] = "pass"
  /\ todo[p] = <<>>
  /\ pc' = [pc EXCEPT ![p] = IF stopping[p] THEN "relRead" ELSE "sleep"]
  /\ UNCHANGED <<lockVars, mode, since, emitStop, existingPid, sigPending, stopping,
                 runVars, envVars, manifest, logVars, toolVars, recentMax, histVars, ghostVars>>

WakeStopsAtOnce(p) ==
  /\ pc[p] = "sleep"
  /\ stopping' = [stopping EXCEPT ![p] = sigPending[p]]
  /\ pc' = [pc EXCEPT ![p] = IF sigPending[p] THEN "relRead" ELSE "looptop"]
  /\ UNCHANGED <<lockVars, mode, since, emitStop, existingPid, sigPending, runVars,
                 envVars, manifest, logVars, toolVars, recentMax, histVars, ghostVars>>

\* The sleep ends.  Signal handlers run only while the process awaits, so a
\* signal that arrived since the last sleep sets the flag here.
Wake(p) ==
  /\ pc[p] = "sleep"
  /\ stopping' = [stopping EXCEPT ![p] = sigPending[p]]
  /\ pc' = [pc EXCEPT ![p] = "looptop"]
  /\ UNCHANGED <<lockVars, mode, since, emitStop, existingPid, sigPending, runVars,
                 envVars, manifest, logVars, toolVars, recentMax, histVars, ghostVars>>

\* SIGINT or SIGTERM reaches a watcher whose handlers are installed.  The
\* code between two sleeps runs without yielding, so a signal that arrives
\* during a pass acts as one that arrives during the sleep after it.
Signal(p) ==
  /\ pc[p] = "sleep"
  /\ ~sigPending[p]
  /\ sigPending' = [sigPending EXCEPT ![p] = TRUE]
  /\ sigSeen' = [sigSeen EXCEPT ![p] =
                   [f \in Files |-> IF f \in visible THEN Len(fileContent[f]) ELSE NoEntry]]
  /\ UNCHANGED <<lockVars, pc, mode, since, emitStop, existingPid, stopping, runVars,
                 envVars, manifest, logVars, toolVars, recentMax, decided, ran, lastSkip, ghostVars>>

\* The memory of a process that has ended: its local state is gone.
Forget(p) ==
  /\ existingPid' = [existingPid EXCEPT ![p] = NoPid]
  /\ sigPending' = [sigPending EXCEPT ![p] = FALSE]
  /\ stopping' = [stopping EXCEPT ![p] = FALSE]
  /\ offsets' = [offsets EXCEPT ![p] = [f \in Files |-> NoEntry]]
  /\ remainders' = [remainders EXCEPT ![p] = [f \in Files |-> <<>>]]
  /\ recentEvents' = [recentEvents EXCEPT ![p] = <<>>]
  /\ todo' = [todo EXCEPT ![p] = <<>>]
  /\ lastSkip' = [lastSkip EXCEPT ![p] = <<>>]
  /\ sigSeen' = [sigSeen EXCEPT ![p] = NoSnapshot]

\* The process dies without running any of its code (SIGKILL, or a
\* termination signal before the handlers are installed).  Only the death of
\* a process whose PID the lock file records can be observed by the others.
Crash(p) ==
  /\ pc[p] \notin {"idle", "done", "dead"}
  /\ lockPid = p
  /\ pc' = [pc EXCEPT ![p] = "dead"]
  /\ Forget(p)
  /\ UNCHANGED <<lockVars, mode, since, emitStop, envVars, manifest, logVars, toolVars, recentMax, decided, ran, ghostVars>>

\* The finally block runs on both ways out of the loop: after the break
\* ("relRead", "relUnlink", then the bridge-stop record) and while an
\* exception propagates ("relReadX", "relUnlinkX", then the abort).
ReleaseReads == {"relRead", "relReadX"}
ReleaseUnlinks == {"relUnlink", "relUnlinkX"}
AfterRelease(at) == IF at \in {"relRead", "relUnlink"} THEN "stopLog" ELSE "abort"
UnlinkOf(at) == IF at = "relRead" THEN "relUnlink" ELSE "relUnlinkX"

\* Lines 1239-1241 of the release closure: read the lock, compare the PID.
ReleaseRead(p) ==
  /\ pc[p] \in ReleaseReads
  /\ IF lockOwner = 0
       THEN /\ pc' = [pc EXCEPT ![p] = AfterRelease(@)]
            /\ UNCHANGED existingPid
       ELSE /\ existingPid' = [existingPid EXCEPT ![p] = parseWatchLockPid(lockPid)]
            /\ pc' = [pc EXCEPT ![p] =
                        IF parseWatchLockPid(lockPid) = p THEN UnlinkOf(@) ELSE AfterRelease(@)]
  /\ UNCHANGED <<lockVars, mode, since, emitStop, sigPending, stopping, runVars,
                 envVars, manifest, logVars, toolVars, recentMax, histVars, ghostVars>>

\* Line 1242: unlinkSync; an error is ignored.
ReleaseUnlink(p) ==
  /\ pc[p] \in ReleaseUnlinks
  /\ IF lockOwner = 0
       THEN UNCHANGED <<lockVars, mutated, contended>>
       ELSE /\ lockOwner' = 0
            /\ lockPid' = NoPid
            /\ Touch(p)
  /\ pc' = [pc EXCEPT ![p] = AfterRelease(@)]
  /\ UNCHANGED <<mode, since, emitStop, existingPid, sigPending, stopping, runVars,
                 envVars, manifest, logVars, toolVars, recentMax, histVars, startedStale, outcome>>

\* statSync of processSessionFile throws: the file located for this pass is
\* gone.  In watch() the exception leaves the loop through the finally
\* block; in runOnce() it ends the process.
PollThrows(p) ==
  /\ pc[p] \in {"pass", "oncepass"}
  /\ todo[p] # <<>>
  /\ Head(todo[p]) \notin visible
  /\ pc' = [pc EXCEPT ![p] = IF @ = "pass" THEN "relReadX" ELSE "abort"]
  /\ UNCHANGED <<lockVars, mode, since, emitStop, existingPid, sigPending, stopping,
                 runVars, envVars, manifest, logVars, toolVars, recentMax, histVars, ghostVars>>

\* Lines 1587-1590: main().catch reports the error and exits with code 1.
Abort(p) ==
  /\ pc[p] = "abort"
  /\ pc' = [pc EXCEPT ![p] = "dead"]
  /\ Forget(p)
  /\ UNCHANGED <<lockVars, mode, since, emitStop, envVars, manifest, logVars, toolVars, recentMax, decided, ran, ghostVars>>

\* Line 1574: bridge-stop is logged and the process ends.
Finish(p) ==
  /\ pc[p] = "stopLog"
  /\ pc' = [pc EXCEPT ![p] = "done"]
  /\ Forget(p)
  /\ debugLog' = WriteLog(p, "bridge-stop", "watch")
  /\ UNCHANGED <<lockVars, mode, since, emitStop, envVars, manifest, reaped, toolVars, recentMax, decided, ran,
                 ghostVars>>

(***************************************************************************)
(* runOnce(): after the single pass, the optional synthetic Stop event.    *)
(***************************************************************************)
OnceEndAlwaysStop(p) ==
  /\ pc[p] = "oncepass"
  /\ todo[p] = <<>>
  /\ IF TRUE
       THEN /\ decided' = [decided EXCEPT ![p] = Append(@, Verdict(0, <<>>, "synthetic", now))]
            /\ ran' = [ran EXCEPT ![p] =
                         @ \o executeEvent(manifest, StopEvent, Len(decided[p]) + 1)]
            /\ UNCHANGED <<lastSkip, sigSeen>>
       ELSE UNCHANGED histVars
  /\ pc' = [pc EXCEPT ![p] = "done"]
  /\ debugLog' = WriteLog(p, "bridge-stop", "once")
  /\ UNCHANGED <<lockVars, mode, since, emitStop, existingPid, sigPending, stopping,
                 runVars, envVars, manifest, reaped, toolVars, recentMax, ghostVars>>

OnceEnd(p) ==
  /\ pc[p] = "oncepass"
  /\ todo[p] = <<>>
  /\ IF emitStop[p]
       THEN /\ decided' = [decided EXCEPT ![p] = Append(@, Verdict(0, <<>>, "synthetic", now))]
            /\ ran' = [ran EXCEPT ![p] =
                         @ \o executeEvent(manifest, StopEvent, Len(decided[p]) + 1)]
            /\ UNCHANGED <<lastSkip, sigSeen>>
       ELSE UNCHANGED histVars
  /\ pc' = [pc EXCEPT ![p] = "done"]
  /\ debugLog' = WriteLog(p, "bridge-stop", "once")
  /\ UNCHANGED <<lockVars, mode, since, emitStop, existingPid, sigPending, stopping,
                 runVars, envVars, manifest, reaped, toolVars, recentMax, ghostVars>>

(***************************************************************************)
(* The environment: the session log producer and the clock.                *)
(***************************************************************************)
TailBytes == {NL, "tc", "xx", "c3", "a9"}
DispatchSymbols == {"ts", "tc", "ex"}

AppendByte(f, b) ==
  /\ f \in visible
  /\ Len(fileContent[f]) < MaxFileLen
  /\ fileContent' = [fileContent EXCEPT ![f] = Append(@, b)]
  /\ UNCHANGED <<lockVars, procVars, runVars, visible, now, ticks, manifestFile, manifest, logVars, toolVars, recentMax, hookBehaviour,
                 histVars, ghostVars>>

RECURSIVE SumLen(_)
SumLen(set) ==
  IF set = {} THEN 0
  ELSE LET f == CHOOSE x \in set : TRUE IN Len(fileContent[f]) + SumLen(set \ {f})

AppendLine(f, sym) ==
  /\ f \in visible
  /\ SumLen(Files) < 2 * MaxLines
  /\ fileContent' = [fileContent EXCEPT ![f] = @ \o <<sym, NL>>]
  /\ UNCHANGED <<lockVars, procVars, runVars, visible, now, ticks, manifestFile, manifest, logVars, toolVars, recentMax, hookBehaviour,
                 histVars, ghostVars>>

\* A session file is cut back to its first n bytes (to nothing when it is
\* rotated); what is appended afterwards is new content.
Truncate(f, n) ==
  /\ f \in visible
  /\ n < Len(fileContent[f])
  /\ \A p \in Procs : Len(decided[p]) < MaxLines
  /\ fileContent' = [fileContent EXCEPT ![f] = SubSeq(@, 1, n)]
  /\ UNCHANGED <<lockVars, procVars, runVars, visible, now, ticks, manifestFile, manifest,
                 logVars, toolVars, recentMax, hookBehaviour, histVars, ghostVars>>

\* A session file is removed.
DeleteFile(f) ==
  /\ f \in visible
  /\ visible' = visible \ {f}
  /\ UNCHANGED <<lockVars, procVars, runVars, fileContent, now, ticks, manifestFile, manifest, logVars, toolVars, recentMax, hookBehaviour,
                 histVars, ghostVars>>

CreateFile(f) ==
  /\ f \notin visible
  /\ visible' = visible \cup {f}
  /\ UNCHANGED <<lockVars, procVars, runVars, fileContent, now, ticks, manifestFile, manifest, logVars, toolVars, recentMax, hookBehaviour,
                 histVars, ghostVars>>

Tick(d) ==
  /\ ticks < MaxTicks
  /\ now' = now + d
  /\ ticks' = ticks + 1
  /\ UNCHANGED <<lockVars, procVars, runVars, fileContent, visible, manifestFile, manifest, logVars, toolVars, recentMax, hookBehaviour,
                 histVars, ghostVars>>

\* Bridge processes that ran before, under PIDs outside the model, have left
\* records in the debug log, each stamped with the clock of its writing.
ForeignPids == {StalePid, StalePid + 1}
ForeignRecords(nowMs) ==
  {LogRecord(StalePid, nowMs, "bridge-start", "watch", t[1], t[2]) :
     t \in {<<OwnHome, OwnProject>>, <<"home2", OwnProject>>, <<OwnHome, "proj2">>}}
    \cup {LogRecord(StalePid, nowMs, "bridge-start", "once", OwnHome, OwnProject),
          LogRecord(StalePid, nowMs, "bridge-stop", "watch", "", ""),
          LogRecord(StalePid, nowMs, "bridge-stop", "once", "", ""),
          LogRecord(StalePid + 1, nowMs, "bridge-start", "watch", OwnHome, OwnProject)}

LogForeign(rec) ==
  /\ debugLog.on
  /\ Len(debugLog.records) < MaxLog
  /\ \A p \in Procs : pc[p] = "idle"
  /\ debugLog' = [debugLog EXCEPT !.records = Append(@, rec)]
  /\ UNCHANGED <<lockVars, procVars, runVars, envVars, manifest, reaped, toolVars, recentMax, histVars, ghostVars>>

\* Lines 1449-1453 of processSessionFile: one call of
\* recordAndCheckDuplicateEvent(state, line) at the clock's time; what it
\* returns is kept as the verdict of the line.
Lookup(p, signature) ==
  /\ Len(decided[p]) < MaxLookups
  /\ \E chk \in {recordAndCheckDuplicateEvent(recentEvents[p], signature, now)} :
       /\ recentEvents' = [recentEvents EXCEPT ![p] = chk.recent]
       /\ decided' = [decided EXCEPT ![p] =
            Append(@, Verdict(1, signature, IF chk.dup THEN "deduped" ELSE "dispatched", now))]
  /\ UNCHANGED <<lockVars, procVars, offsets, remainders, todo, envVars, manifest, logVars,
                 toolVars, recentMax, ran, lastSkip, sigSeen, ghostVars>>

(***************************************************************************)
(* The sync tool (crs sync, crs check).                                    *)
(*                                                                         *)
(* The disk is a set of nodes: directories and files with their paths (a   *)
(* path is a sequence of names).  The content of a file is a record: its   *)
(* text, and for the JSON and TOML files of the tool the parts the tool    *)
(* reads.  A server, a plugin source and a hook source is a pair of        *)
(* strings (its name or id, its definition).                               *)
(***************************************************************************)
NoData ==
  [text |-> "", servers |-> {}, names |-> {}, plugins |-> {}, topHooks |-> {},
   link |-> "", toml |-> <<>>]
Text(t) == [NoData EXCEPT !.text = t]
McpJson(servers) == [NoData EXCEPT !.servers = servers]

File(path, data) == [path |-> path, dir |-> FALSE, data |-> data]
Dir(path) == [path |-> path, dir |-> TRUE, data |-> NoData]
IsPrefix(p, q) == Len(p) <= Len(q) /\ SubSeq(q, 1, Len(p)) = p
Ancestors(path) == {SubSeq(path, 1, k) : k \in 1..(Len(path) - 1)}

\* A set of files together with the directories they lie in.
Tree(files) == files \cup {Dir(d) : d \in UNION {Ancestors(f.path) : f \in files}}

existsSync(fs, path) == \E n \in fs : n.path = path
isFile(fs, path) == \E n \in fs : n.path = path /\ ~n.dir
readFileSync(fs, path) == (CHOOSE n \in fs : n.path = path).data
mkdirSync(fs, path) ==
  fs \cup {Dir(d) : d \in {a \in Ancestors(path) \cup {path} : ~existsSync(fs, a)}}
rmSync(fs, path) == {n \in fs : ~IsPrefix(path, n.path)}
cpSync(fs, src, dst) ==
  LET copied == {[n EXCEPT !.path = dst \o SubSeq(n.path, Len(src) + 1, Len(n.path))] :
                   n \in {m \in fs : IsPrefix(src, m.path)}}
  IN {n \in fs : \A c \in copied : c.path # n.path} \cup copied
writeFileSync(fs, path, data) == {n \in fs : n.path # path} \cup {File(path, data)}

listDirectories(fs, dirPath) ==
  {n.path[Len(dirPath) + 1] :
     n \in {m \in fs : m.dir /\ Len(m.path) = Len(dirPath) + 1 /\ IsPrefix(dirPath, m.path)}}

\* digestDirectory: null for a missing directory, else what the hash is
\* taken of, the relative paths and contents of the files below it.
digestDirectory(fs, dirPath) ==
  [exists |-> existsSync(fs, dirPath),
   files |-> {<<SubSeq(n.path, Len(dirPath) + 1, Len(n.path)), n.data>> :
                n \in {m \in fs : ~m.dir /\ IsPrefix(dirPath, m.path)}}]

\* The smallest name of a set, in the order of listDirectories.
NameRank(name) ==
  CASE name = "agents.md" -> 1
    [] name = "alpha" -> 2
    [] name = "demo" -> 3
    [] name = "gemini.md" -> 4
    [] name = "old" -> 5
    [] name = "plugins" -> 6
    [] name = "sk" -> 7
    [] OTHER -> 8
FirstName(names) == CHOOSE x \in names : \A y \in names : NameRank(x) <= NameRank(y)

\* Lines 286-308 of syncSkills, 3091-3119 of syncPluginsFromMappings and
\* 3352-3373 of syncPluginSkills: the loop over the mappings, which adds the
\* missing target directories and replaces those whose digest differs.
RECURSIVE CopyMappings(_, _, _, _, _)
CopyMappings(fs, sourceRoot, names, targetRoot, check) ==
  IF names = {} THEN [fs |-> fs, added |-> {}, updated |-> {}]
  ELSE
    LET name == FirstName(names)
        sourcePath == sourceRoot \o <<name>>
        targetPath == targetRoot \o <<name>>
        isAdded == ~existsSync(fs, targetPath)
        isUpdated == ~isAdded /\ digestDirectory(fs, sourcePath) # digestDirectory(fs, targetPath)
        written == IF check THEN fs
                   ELSE IF isAdded THEN cpSync(mkdirSync(fs, targetRoot), sourcePath, targetPath)
                   ELSE IF isUpdated THEN cpSync(rmSync(fs, targetPath), sourcePath, targetPath)
                   ELSE fs
    IN CHOOSE out \in
         {[fs |-> rest.fs,
           added |-> rest.added \cup (IF isAdded THEN {name} ELSE {}),
           updated |-> rest.updated \cup (IF isUpdated THEN {name} ELSE {})] :
            rest \in {CopyMappings(written, sourceRoot, names \ {name}, targetRoot, check)}} :
         TRUE

\* Lines 311-319 of syncSkills (3121-3128, 3375-3383, 3387-3396): the
\* existing target directories without a mapping are removed.
RECURSIVE RemoveDirs(_, _, _, _)
RemoveDirs(fs, targetRoot, names, check) ==
  IF names = {} \/ check THEN fs
  ELSE LET name == FirstName(names)
       IN RemoveDirs(rmSync(fs, targetRoot \o <<name>>), targetRoot, names \ {name}, check)

\* The three directory syncs share one shape: the target directories are
\* listed first, then the mappings are copied, then the rest is removed.
SyncDirsNoCheck(fs, sourceRoot, names, targetRoot, check) ==
  LET removed == listDirectories(fs, targetRoot) \ names
  IN CHOOSE out \in
       {[fs |-> RemoveDirs(copy.fs, targetRoot, removed, FALSE),
         changed |-> copy.added # {} \/ copy.updated # {} \/ removed # {},
         removed |-> removed] :
          copy \in {CopyMappings(fs, sourceRoot, names, targetRoot, FALSE)}} : TRUE

SyncDirs(fs, sourceRoot, names, targetRoot, check) ==
  LET removed == listDirectories(fs, targetRoot) \ names
  IN CHOOSE out \in
       {[fs |-> RemoveDirs(copy.fs, targetRoot, removed, check),
         changed |-> copy.added # {} \/ copy.updated # {} \/ removed # {},
         removed |-> removed] :
          copy \in {CopyMappings(fs, sourceRoot, names, targetRoot, check)}} : TRUE

\* buildSkillMappings and collectPluginSkillMappings with the default
\* options: the source directories that hold a SKILL.md, under their own
\* names.
SkillNames(fs, sourceSkillsDir) ==
  {d \in listDirectories(fs, sourceSkillsDir) :
     existsSync(fs, sourceSkillsDir \o <<d, "SKILL.md">>)}

syncSkills(fs, sourceSkillsDir, targetSkillsRoot, check) ==
  SyncDirs(fs, sourceSkillsDir, SkillNames(fs, sourceSkillsDir), targetSkillsRoot, check)

\* buildPluginMappings: the plugin directories of the source are the
\* enabled plugins of the registry, mapped under their own names.
PluginNames(fs, sourcePluginsDir) == listDirectories(fs, sourcePluginsDir)

syncPlugins(fs, sourcePluginsDir, targetPluginsRoot, check) ==
  SyncDirs(fs, sourcePluginsDir, PluginNames(fs, sourcePluginsDir), targetPluginsRoot, check)

\* syncPluginSkills: the loop over the plugin entries.
RECURSIVE PluginSkillsLoop(_, _, _, _, _)
PluginSkillsLoop(fs, sourcePluginsDir, entries, targetSkillsRoot, check) ==
  IF entries = {} THEN [fs |-> fs, changed |-> FALSE, active |-> {}]
  ELSE
    LET entry == FirstName(entries)
        sourceSkillsDir == sourcePluginsDir \o <<entry, "skills">>
        skills == SkillNames(fs, sourceSkillsDir)
        one == IF skills = {} THEN [fs |-> fs, changed |-> FALSE, removed |-> {}]
               ELSE SyncDirs(fs, sourceSkillsDir, skills, targetSkillsRoot \o <<entry>>, check)
    IN CHOOSE out \in
         UNION {{[fs |-> rest.fs,
                  changed |-> done.changed \/ rest.changed,
                  active |-> rest.active \cup (IF skills = {} THEN {} ELSE {entry})] :
                   rest \in {PluginSkillsLoop(done.fs, sourcePluginsDir, entries \ {entry},
                                              targetSkillsRoot, check)}} :
                  done \in {one}} : TRUE

syncPluginSkills(fs, sourcePluginsDir, pluginEntries, targetSkillsRoot, check) ==
  CHOOSE out \in
    {[fs |-> RemoveDirs(loop.fs, targetSkillsRoot,
                        listDirectories(loop.fs, targetSkillsRoot) \ loop.active, check),
      changed |-> loop.changed
                    \/ listDirectories(loop.fs, targetSkillsRoot) \ loop.active # {}] :
       loop \in {PluginSkillsLoop(fs, sourcePluginsDir, pluginEntries, targetSkillsRoot,
                                  check)}} : TRUE

\* syncHooksDir with the default options.
syncHooksDir(fs, sourceHooksDir, targetHooksRoot, check) ==
  LET sourceHookPath == sourceHooksDir \o <<"hooks.json">>
      targetHookPath == targetHooksRoot \o <<"hooks.json">>
      targetExists == existsSync(fs, targetHookPath)
      sourceExists == existsSync(fs, sourceHookPath)
      copied == writeFileSync(mkdirSync(fs, targetHooksRoot), targetHookPath,
                              readFileSync(fs, sourceHookPath))
  IN IF ~sourceExists
       THEN [fs |-> IF targetExists /\ ~check THEN rmSync(fs, targetHookPath) ELSE fs,
             changed |-> targetExists, enabled |-> FALSE, hookFilePath |-> <<>>]
     ELSE IF ~targetExists
       THEN [fs |-> IF check THEN fs ELSE copied,
             changed |-> TRUE, enabled |-> TRUE, hookFilePath |-> targetHookPath]
     ELSE IF readFileSync(fs, sourceHookPath) # readFileSync(fs, targetHookPath)
       THEN [fs |-> IF check THEN fs ELSE copied,
             changed |-> TRUE, enabled |-> TRUE, hookFilePath |-> targetHookPath]
     ELSE [fs |-> fs, changed |-> FALSE, enabled |-> TRUE, hookFilePath |-> targetHookPath]

ClaudeHome == <<"claude">>
CodexHome == <<"codex">>
ProjectRoot == <<"proj">>
ProjectBase == "proj"

\* syncDocAliases; symlinks tells whether symlinkSync succeeds.  An alias
\* that is a symbolic link holds the name it points to in its link field.
RECURSIVE AliasLoop(_, _, _, _, _)
AliasLoop(fs, sourcePath, aliases, check, symlinks) ==
  IF aliases = {} THEN [fs |-> fs, changed |-> FALSE]
  ELSE
    LET aliasName == FirstName(aliases)
        aliasPath == ProjectRoot \o <<aliasName>>
        old == readFileSync(fs, aliasPath)
        unchanged ==
          /\ existsSync(fs, aliasPath)
          /\ IF old.link # "" THEN ProjectRoot \o <<old.link>> = sourcePath
             ELSE old = readFileSync(fs, sourcePath)
        removed == IF existsSync(fs, aliasPath) /\ ~check THEN rmSync(fs, aliasPath) ELSE fs
        written ==
          IF unchanged \/ check THEN fs
          ELSE IF symlinks
            THEN writeFileSync(removed, aliasPath,
                               [NoData EXCEPT !.link = sourcePath[Len(sourcePath)]])
          ELSE writeFileSync(removed, aliasPath, readFileSync(fs, sourcePath))
    IN CHOOSE out \in
         {[fs |-> rest.fs, changed |-> ~unchanged \/ rest.changed] :
            rest \in {AliasLoop(written, sourcePath, aliases \ {aliasName}, check,
                                symlinks)}} : TRUE

syncDocAliases(fs, check, symlinks) ==
  LET sourcePath == ProjectRoot \o <<"CLAUDE.md">>
  IN IF ~isFile(fs, sourcePath) THEN [fs |-> fs, changed |-> FALSE]
     ELSE AliasLoop(fs, sourcePath, {"agents.md", "gemini.md"}, check, symlinks)

\* The servers of an MCP file are pairs <<name, definition>>; Override is
\* the loop mergedServers[name] = config over the servers of one file.
ServerNamesOf(servers) == {s[1] : s \in servers}
OverrideKeepFirst(merged, servers) ==
  merged \cup {s \in servers : s[1] \notin ServerNamesOf(merged)}
Override(merged, servers) ==
  {s \in merged : s[1] \notin ServerNamesOf(servers)} \cup servers

collectServersFromFile(fs, filePath, mergedServers) ==
  IF ~existsSync(fs, filePath) THEN mergedServers
  ELSE Override(mergedServers, readFileSync(fs, filePath).servers)

chooseHomeMcpPath(fs) ==
  IF existsSync(fs, ClaudeHome \o <<"mcp.json">>) THEN ClaudeHome \o <<"mcp.json">>
  ELSE IF existsSync(fs, ClaudeHome \o <<".mcp.json">>) THEN ClaudeHome \o <<".mcp.json">>
  ELSE <<>>
resolveHomeMcpTargetPath(fs) ==
  IF chooseHomeMcpPath(fs) # <<>> THEN chooseHomeMcpPath(fs) ELSE ClaudeHome \o <<"mcp.json">>

StatePath == ClaudeHome \o <<".codex-project-mcp-sync-state.json">>

mirrorProjectMcpIntoHome(fs, check) ==
  LET projectMcpPath == ProjectRoot \o <<".mcp.json">>
      projectServers == readFileSync(fs, projectMcpPath).servers
      targetPath == resolveHomeMcpTargetPath(fs)
      targetServers == IF existsSync(fs, targetPath) THEN readFileSync(fs, targetPath).servers
                       ELSE {}
      stateExists == existsSync(fs, StatePath)
      previousNames == IF stateExists THEN readFileSync(fs, StatePath).names ELSE {}
      nextNames == ServerNamesOf(projectServers)
      kept == {s \in targetServers :
                 ~(s[1] \in previousNames /\ s[1] \notin nextNames)}
      mergedServers == Override(kept, projectServers)
      payloadChanged == mergedServers # targetServers
      stateChanged == ~stateExists \/ previousNames # nextNames
      changed == payloadChanged \/ stateChanged
  IN IF ~existsSync(fs, projectMcpPath)
       THEN [fs |-> fs, enabled |-> FALSE, changed |-> FALSE]
     ELSE [fs |-> IF changed /\ ~check
                    THEN writeFileSync(
                           writeFileSync(mkdirSync(fs, ClaudeHome), targetPath,
                                         McpJson(mergedServers)),
                           StatePath, [NoData EXCEPT !.names = nextNames])
                  ELSE fs,
           enabled |-> TRUE, changed |-> changed]

\* The text of config.toml is a sequence of tokens: a line of the user, a
\* newline, the two markers of the managed block and the entries between
\* them.
Tok(k) == [k |-> k, name |-> "", def |-> ""]
EntryTok(s) == [k |-> "entry", name |-> s[1], def |-> s[2]]
ServerRank(name) ==
  CASE name = "gone" -> 1
    [] name = "only" -> 2
    [] name = "shared" -> 3
    [] OTHER -> 4
RECURSIVE SortedEntries(_)
SortedEntries(servers) ==
  IF servers = {} THEN <<>>
  ELSE LET s == CHOOSE x \in servers : \A y \in servers : ServerRank(x[1]) <= ServerRank(y[1])
       IN <<Tok("nl"), EntryTok(s), Tok("nl")>> \o SortedEntries(servers \ {s})

buildManagedMcpBlock(servers) ==
  <<Tok("start"), Tok("nl"), Tok("auto"), Tok("nl")>>
    \o (IF servers = {} THEN <<Tok("none"), Tok("nl")>> ELSE <<>>)
    \o SortedEntries(servers)
    \o <<Tok("end"), Tok("nl")>>

IndexOf(text, k, from) ==
  LET hits == {i \in from..Len(text) : text[i].k = k}
  IN IF hits = {} THEN 0 ELSE CHOOSE i \in hits : \A j \in hits : i <= j

extractManagedBlock(configText) ==
  LET start == IndexOf(configText, "start", 1)
      end == IF start = 0 THEN 0 ELSE IndexOf(configText, "end", start)
      blockEnd == IF end < Len(configText) /\ end > 0 /\ configText[end + 1].k = "nl"
                  THEN end + 1 ELSE end
  IN [found |-> start # 0 /\ end # 0, start |-> start, end |-> blockEnd]

applyManagedBlock(configText, blockText) ==
  LET existing == extractManagedBlock(configText)
  IN IF ~existing.found
       THEN IF \A i \in 1..Len(configText) : configText[i].k = "nl" THEN blockText
            ELSE configText
                   \o (IF configText[Len(configText)].k = "nl" THEN <<Tok("nl")>>
                       ELSE <<Tok("nl"), Tok("nl")>>)
                   \o blockText
     ELSE SubSeq(configText, 1, existing.start - 1) \o blockText
            \o SubSeq(configText, existing.end + 1, Len(configText))

\* parseMcpEntryMapFromBlock: the entries of the managed block.
ManagedServers(configText) ==
  LET existing == extractManagedBlock(configText)
  IN IF ~existing.found THEN {}
     ELSE {<<configText[i].name, configText[i].def>> :
             i \in {j \in existing.start..existing.end : configText[j].k = "entry"}}

ConfigPath == CodexHome \o <<"config.toml">>

RECURSIVE CollectExtra(_, _, _)
CollectExtra(fs, sources, merged) ==
  IF sources = <<>> THEN merged
  ELSE CollectExtra(fs, Tail(sources), collectServersFromFile(fs, Head(sources), merged))

\* syncMergedMcp with home enabled: the home path is always among the
\* source files, so the block is always built.
syncMergedMcp(fs, check, extraSources, projectEnabled) ==
  LET extra == CollectExtra(fs, extraSources, {})
      home == collectServersFromFile(fs, resolveHomeMcpTargetPath(fs), extra)
      merged == IF projectEnabled
                THEN collectServersFromFile(fs, ProjectRoot \o <<".mcp.json">>, home)
                ELSE home
      oldConfigText == IF existsSync(fs, ConfigPath)
                       THEN readFileSync(fs, ConfigPath).toml ELSE <<>>
      newConfigText == applyManagedBlock(oldConfigText, buildManagedMcpBlock(merged))
      changed == newConfigText # oldConfigText
  IN [fs |-> IF changed /\ ~check
               THEN writeFileSync(mkdirSync(fs, CodexHome), ConfigPath,
                                  [NoData EXCEPT !.toml = newConfigText])
             ELSE fs,
      changed |-> changed]

\* collectPluginMcpSources: the .mcp.json files of the plugins, in the order
\* of the mappings.
RECURSIVE collectPluginMcpSources(_, _, _)
collectPluginMcpSources(fs, sourcePluginsDir, names) ==
  IF names = {} THEN <<>>
  ELSE LET name == FirstName(names)
           mcpPath == sourcePluginsDir \o <<name, ".mcp.json">>
       IN (IF existsSync(fs, mcpPath) THEN <<mcpPath>> ELSE <<>>)
            \o collectPluginMcpSources(fs, sourcePluginsDir, names \ {name})

ManifestPath == CodexHome \o <<"plugins", "claude-bridge", "manifest.json">>

\* The hook sources of the plugin entries whose synced copy has a hooks file.
PluginHookSources(fs, sourceType, targetPluginsRoot, names) ==
  {<<sourceType, name,
     readFileSync(fs, targetPluginsRoot \o <<name, "hooks", "hooks.json">>).text>> :
     name \in {n \in names : existsSync(fs, targetPluginsRoot \o <<n, "hooks", "hooks.json">>)}}

TopHookSources(fs, sourceType, report) ==
  IF report.enabled /\ existsSync(fs, report.hookFilePath)
  THEN {<<sourceType, "top-hooks", readFileSync(fs, report.hookFilePath).text>>}
  ELSE {}

buildBridgeManifest(fs, check, homeEntries, projectEntries, homeHooks, projectHooks) ==
  LET projectRootDir == CodexHome \o <<"plugins", "project", ProjectBase>>
      homeRootDir == CodexHome \o <<"plugins", "claude-home">>
      fromProject == PluginHookSources(fs, "project", projectRootDir, projectEntries)
      fromHome == PluginHookSources(fs, "home", homeRootDir,
                                    homeEntries \ {s[2] : s \in fromProject})
      plugins == fromProject \cup fromHome
      topHooks == TopHookSources(fs, "home", homeHooks)
                    \cup TopHookSources(fs, "project", projectHooks)
      old == readFileSync(fs, ManifestPath)
      changed == ~existsSync(fs, ManifestPath) \/ old.plugins # plugins
                   \/ old.topHooks # topHooks
  IN [fs |-> IF changed /\ ~check
               THEN writeFileSync(mkdirSync(fs, CodexHome \o <<"plugins", "claude-bridge">>),
                                  ManifestPath,
                                  [NoData EXCEPT !.plugins = plugins, !.topHooks = topHooks])
             ELSE fs,
      changed |-> changed]

\* What syncRuntimeSources holds between its steps: the disk, whether a
\* step has reported a change, whether the mirror was enabled, the reports
\* of the two syncHooksDir calls, and what lines 3663-3696 compute before
\* the first step (the plugin mappings and their MCP files).
NoHooks == [enabled |-> FALSE, hookFilePath |-> <<>>]
SyncState(fs) ==
  [fs |-> fs, changed |-> FALSE, mirrorEnabled |-> FALSE,
   homeHooks |-> NoHooks, projectHooks |-> NoHooks,
   homeMappings |-> PluginNames(fs, ClaudeHome \o <<"plugins">>),
   projectMappings |-> PluginNames(fs, ProjectRoot \o <<".claude", "plugins">>),
   extraMcpSources |->
     collectPluginMcpSources(fs, ClaudeHome \o <<"plugins">>,
                             PluginNames(fs, ClaudeHome \o <<"plugins">>))
       \o collectPluginMcpSources(fs, ProjectRoot \o <<".claude", "plugins">>,
                                  PluginNames(fs, ProjectRoot \o <<".claude", "plugins">>))]

Report(st, r) == [st EXCEPT !.fs = r.fs, !.changed = @ \/ r.changed]
HooksOf(r) == [enabled |-> r.enabled, hookFilePath |-> r.hookFilePath]

\* The steps in the order of the code: 1 to 4 are syncSources of
\* sync-claude-all-to-codex.js (lines 867-920), 5 to 12 are lines 3704-3781
\* of syncRuntimeSources, with home and project included.
SyncStep(k, st, check, symlinks) ==
  CASE k = 1 -> Report(st, syncSkills(st.fs, ClaudeHome \o <<"skills">>,
                                      CodexHome \o <<"skills", "claude-home">>, check))
    [] k = 2 -> Report(st, syncSkills(st.fs, ProjectRoot \o <<".claude", "skills">>,
                                      CodexHome \o <<"skills", "project", ProjectBase>>, check))
    [] k = 3 -> [Report(st, mirrorProjectMcpIntoHome(st.fs, check))
                   EXCEPT !.mirrorEnabled = existsSync(st.fs, ProjectRoot \o <<".mcp.json">>)]
    [] k = 4 -> Report(st, syncMergedMcp(st.fs, check, st.extraMcpSources, ~st.mirrorEnabled))
    [] k = 5 -> Report(st, syncPlugins(st.fs, ClaudeHome \o <<"plugins">>,
                                       CodexHome \o <<"plugins", "claude-home">>, check))
    [] k = 6 -> Report(st, syncPluginSkills(st.fs, ClaudeHome \o <<"plugins">>, st.homeMappings,
                         CodexHome \o <<"skills", "claude-home", "plugins">>, check))
    [] k = 7 -> [Report(st, syncHooksDir(st.fs, ClaudeHome \o <<"hooks">>,
                                         CodexHome \o <<"hooks", "claude-home">>, check))
                   EXCEPT !.homeHooks =
                     HooksOf(syncHooksDir(st.fs, ClaudeHome \o <<"hooks">>,
                                          CodexHome \o <<"hooks", "claude-home">>, check))]
    [] k = 8 -> Report(st, syncPlugins(st.fs, ProjectRoot \o <<".claude", "plugins">>,
                                       CodexHome \o <<"plugins", "project", ProjectBase>>, check))
    [] k = 9 -> Report(st, syncPluginSkills(st.fs, ProjectRoot \o <<".claude", "plugins">>,
                         st.projectMappings,
                         CodexHome \o <<"skills", "project", ProjectBase, "plugins">>, check))
    [] k = 10 -> [Report(st, syncHooksDir(st.fs, ProjectRoot \o <<".claude", "hooks">>,
                                          CodexHome \o <<"hooks", "project", ProjectBase>>, check))
                    EXCEPT !.projectHooks =
                      HooksOf(syncHooksDir(st.fs, ProjectRoot \o <<".claude", "hooks">>,
                                           CodexHome \o <<"hooks", "project", ProjectBase>>, check))]
    [] k = 11 -> Report(st, syncDocAliases(st.fs, check, symlinks))
    [] OTHER -> Report(st, buildBridgeManifest(st.fs, check, st.homeMappings,
                                               st.projectMappings, st.homeHooks,
                                               st.projectHooks))

\* Steps k to last, each on the disk the step before has left.
RECURSIVE RunSteps(_, _, _, _, _)
RunSteps(k, last, st, check, symlinks) ==
  IF k > last THEN st
  ELSE CHOOSE out \in
         UNION {{RunSteps(k + 1, last, next, check, symlinks) :
                   next \in {SyncStep(k, cur, check, symlinks)}} : cur \in {st}} : TRUE

syncBaseSources(st, check) == RunSteps(1, 4, st, check, FALSE)

syncRuntimeSources(fs, check, symlinks) ==
  RunSteps(5, 12, syncBaseSources(SyncState(fs), check), check, symlinks)

NoRun == [ran |-> FALSE, check |-> FALSE, changed |-> FALSE, exitCode |-> 0, before |-> {}]

\* main of the sync tool: one run of crs check (check) or crs sync.
SyncMain(check, symlinks) ==
  \E report \in {syncRuntimeSources(disk, check, symlinks)} :
    /\ disk' = report.fs
    /\ syncLog' = [ran |-> TRUE, check |-> check, changed |-> report.changed,
                   exitCode |-> IF check /\ report.changed THEN 1 ELSE 0,
                   before |-> disk]
    /\ UNCHANGED <<lockVars, procVars, runVars, envVars, manifest, logVars, recentMax,
                   sessions, located, rewrite, histVars, ghostVars>>

(***************************************************************************)
(* The session log locator on a directory tree.                            *)
(*                                                                         *)
(* An entry of the tree is a regular file, a directory or a symbolic link, *)
(* with its path (a sequence of names below the root's) and, for a file,   *)
(* its modification time in milliseconds.  A name is a sequence of         *)
(* characters.  The tailer above sees of all this the files the locator    *)
(* returns, numbered in the order it returns them.                         *)
(***************************************************************************)
Entry(path, kind, mtimeMs) == [path |-> path, kind |-> kind, mtimeMs |-> mtimeMs]

JsonlExt == <<".", "j", "s", "o", "n", "l">>
SessionsRoot == << <<"s">> >>

\* path.join: the names of a path with the separator between them.
RECURSIVE PathString(_)
PathString(path) ==
  IF Len(path) = 1 THEN path[1] ELSE path[1] \o <<"/">> \o PathString(Tail(path))

endsWith(name, suffix) ==
  /\ Len(name) >= Len(suffix)
  /\ SubSeq(name, Len(name) - Len(suffix) + 1, Len(name)) = suffix

\* fs.readdirSync(current, { withFileTypes: true })
readdirSync(fs, current) ==
  {e \in fs : Len(e.path) = Len(current) + 1 /\ IsPrefix(current, e.path)}

QualifiesAnyTime(entry, sinceEpochSec) ==
  entry.kind = "file" /\ endsWith(Last(entry.path), JsonlExt)

\* Lines 806-818: the entry is a regular file with the extension and, under
\* a floor, not modified before it (Math.floor(stat.mtimeMs / 1000)).
Qualifies(entry, sinceEpochSec) ==
  /\ entry.kind = "file"
  /\ endsWith(Last(entry.path), JsonlExt)
  /\ (sinceEpochSec # 0) => ((entry.mtimeMs \div 1000) >= sinceEpochSec)

RECURSIVE SeqOfSet(_)
SeqOfSet(set) ==
  IF set = {} THEN <<>>
  ELSE LET x == CHOOSE y \in set : TRUE IN <<x>> \o SeqOfSet(set \ {x})

\* Lines 794-820: the walk with a stack of directories.
RECURSIVE WalkSessions(_, _, _, _)
WalkSessions(fs, stack, files, sinceEpochSec) ==
  IF stack = <<>> THEN files
  ELSE WalkSessions(
         fs,
         Front(stack) \o SeqOfSet({e.path : e \in {x \in readdirSync(fs, Last(stack)) :
                                                      x.kind = "dir"}}),
         files \cup {e.path : e \in {x \in readdirSync(fs, Last(stack)) :
                                       Qualifies(x, sinceEpochSec)}},
         sinceEpochSec)

\* The code unit of a character, and its weights in the collation of
\* String.prototype.localeCompare: punctuation, digits, letters; the two
\* cases of a letter differ at the third level only, lower case first.
CodeUnit(c) ==
  CASE c = "." -> 46 [] c = "/" -> 47 [] c = "1" -> 49 [] c = "B" -> 66
    [] c = "a" -> 97 [] c = "j" -> 106 [] c = "l" -> 108 [] c = "n" -> 110
    [] c = "o" -> 111 [] c = "s" -> 115

PrimaryWeight(c) ==
  CASE c = "." -> 1 [] c = "/" -> 2 [] c = "1" -> 3 [] c = "a" -> 4
    [] c = "B" -> 5 [] c = "j" -> 6 [] c = "l" -> 7 [] c = "n" -> 8
    [] c = "o" -> 9 [] c = "s" -> 10

TertiaryWeight(c) == IF c = "B" THEN 1 ELSE 0

\* The order of two sequences of numbers: -1, 0 or 1.
RECURSIVE CompareKeys(_, _)
CompareKeys(u, v) ==
  IF u = <<>> /\ v = <<>> THEN 0
  ELSE IF u = <<>> THEN -1
  ELSE IF v = <<>> THEN 1
  ELSE IF Head(u) < Head(v) THEN -1
  ELSE IF Head(u) > Head(v) THEN 1
  ELSE CompareKeys(Tail(u), Tail(v))

compareCodeUnits(x, y) ==
  CompareKeys([i \in 1..Len(x) |-> CodeUnit(x[i])], [i \in 1..Len(y) |-> CodeUnit(y[i])])

\* a.localeCompare(b)
localeCompare(x, y) ==
  IF CompareKeys([i \in 1..Len(x) |-> PrimaryWeight(x[i])],
                 [i \in 1..Len(y) |-> PrimaryWeight(y[i])]) # 0
    THEN CompareKeys([i \in 1..Len(x) |-> PrimaryWeight(x[i])],
                     [i \in 1..Len(y) |-> PrimaryWeight(y[i])])
    ELSE CompareKeys([i \in 1..Len(x) |-> TertiaryWeight(x[i])],
                     [i \in 1..Len(y) |-> TertiaryWeight(y[i])])

\* files.sort((a, b) => a.localeCompare(b))
RECURSIVE SortPaths(_)
SortPaths(paths) ==
  IF paths = {} THEN <<>>
  ELSE LET first == CHOOSE x \in paths :
                      \A y \in paths : localeCompare(PathString(x), PathString(y)) <= 0
       IN <<first>> \o SortPaths(paths \ {first})

\* collectSessionFiles(sessionsRoot, sinceEpochSec) on the tree fs.
collectSessionFilesAt(fs, sessionsRoot, sinceEpochSec) ==
  IF ~existsSync(fs, sessionsRoot) THEN <<>>
  ELSE SortPaths(WalkSessions(fs, <<sessionsRoot>>, {}, sinceEpochSec))

NoLocate == [ran |-> FALSE, since |-> 0, files |-> <<>>]

\* One call of the locator, with or without a floor.
Locate(sinceEpochSec) ==
  /\ located' = [ran |-> TRUE, since |-> sinceEpochSec,
                 files |-> collectSessionFilesAt(sessions, SessionsRoot, sinceEpochSec)]
  /\ UNCHANGED <<lockVars, procVars, runVars, envVars, manifest, logVars, disk, syncLog,
                 sessions, rewrite, recentMax, histVars, ghostVars>>

(***************************************************************************)
(* Initial states and specifications.                                      *)
(***************************************************************************)
InitCommon ==
  /\ pc = [p \in Procs |-> "idle"]
  /\ reaped = [p \in Procs |-> <<>>]
  /\ manifest = EmptyManifest
  /\ mode = [p \in Procs |-> "watch"]
  /\ since = [p \in Procs |-> NoSince]
  /\ emitStop = [p \in Procs |-> FALSE]
  /\ existingPid = [p \in Procs |-> NoPid]
  /\ sigPending = [p \in Procs |-> FALSE]
  /\ stopping = [p \in Procs |-> FALSE]
  /\ offsets = [p \in Procs |-> [f \in Files |-> NoEntry]]
  /\ remainders = [p \in Procs |-> [f \in Files |-> <<>>]]
  /\ recentEvents = [p \in Procs |-> <<>>]
  /\ todo = [p \in Procs |-> <<>>]
  /\ now = 0
  /\ ticks = 0
  /\ decided = [p \in Procs |-> <<>>]
  /\ ran = [p \in Procs |-> <<>>]
  /\ lastSkip = [p \in Procs |-> <<>>]
  /\ sigSeen = [p \in Procs |-> NoSnapshot]
  /\ startedStale = [p \in Procs |-> FALSE]
  /\ contended = [p \in Procs |-> FALSE]
  /\ outcome = [p \in Procs |-> "none"]
  /\ mutated = [p \in Procs |-> FALSE]

\* The hook commands all succeed.
InitQuietHooks == hookBehaviour = AllSucceed

\* The invocations run with --no-debug-log.
InitNoLog == debugLog = [on |-> FALSE, fails |-> {}, records |-> <<>>]

\* The sync tool has not run and its trees are out of sight.
NoRewrite == [ran |-> FALSE, before |-> <<>>, block |-> <<>>, after |-> <<>>]

InitNoTool ==
  disk = {} /\ syncLog = NoRun /\ sessions = {} /\ located = NoLocate /\ rewrite = NoRewrite

\* The dedup cache has the capacity the model scales RECENT_EVENT_MAX to.
InitCapacity == recentMax = RECENT_EVENT_MAX

\* Several invocations contend for the lock; one session file holds one event.
InitLock ==
  /\ InitCommon
  /\ InitQuietHooks
  /\ InitNoTool
  /\ InitCapacity
  /\ InitNoLog
  /\ \/ lockOwner = 0 /\ lockPid = NoPid
     \/ lockOwner = StalePid /\ lockPid = StalePid
  /\ visible = {1}
  /\ fileContent = [f \in Files |-> IF f = 1 THEN <<"tc", NL>> ELSE <<>>]
  /\ manifestFile = ObjectFile(DemoManifest)

NextLock ==
  \/ \E p \in Procs : Start(p, "watch", NoSince, FALSE)
  \/ \E p \in Procs : Open1(p)
  \/ \E p \in Procs : Write1(p)
  \/ \E p \in Procs : ReadLock(p)
  \/ \E p \in Procs : Probe(p)
  \/ \E p \in Procs : Unlink(p)
  \/ \E p \in Procs : Open2(p)
  \/ \E p \in Procs : Write2(p)
  \/ \E p \in Procs : WatchInit(p)
  \/ \E p \in Procs : LoopTop(p)
  \/ \E p \in Procs : PollFile(p)
  \/ \E p \in Procs : PassEnd(p)
  \/ \E p \in Procs : Wake(p)
  \/ \E p \in Procs : Signal(p)
  \/ \E p \in Procs : Crash(p)
  \/ \E p \in Procs : ReleaseRead(p)
  \/ \E p \in Procs : ReleaseUnlink(p)
  \/ \E p \in Procs : Finish(p)

SpecLock == InitLock /\ [][NextLock]_vars

\* One invocation, with or without hook rules, tails one session file that
\* grows byte by byte.
InitTail ==
  /\ InitCommon
  /\ InitQuietHooks
  /\ InitNoTool
  /\ InitCapacity
  /\ InitNoLog
  /\ lockOwner = 0
  /\ lockPid = NoPid
  /\ visible = {1}
  /\ fileContent = [f \in Files |-> <<>>]
  /\ manifestFile \in {ObjectFile(m) : m \in Manifests}

NextTail ==
  \/ \E m \in {"watch", "once"} : Start(1, m, NoSince, FALSE)
  \/ Open1(1)
  \/ Write1(1)
  \/ WatchInit(1)
  \/ LoopTop(1)
  \/ PollFile(1)
  \/ PassEnd(1)
  \/ Wake(1)
  \/ Signal(1)
  \/ ReleaseRead(1)
  \/ ReleaseUnlink(1)
  \/ Finish(1)
  \/ OnceEnd(1)
  \/ \E b \in TailBytes : AppendByte(1, b)

SpecTail == InitTail /\ [][NextTail]_vars

\* One invocation dispatches the events of session files that grow line by
\* line while the clock advances.
InitDispatch ==
  /\ InitCommon
  /\ InitQuietHooks
  /\ InitNoTool
  /\ InitCapacity
  /\ InitNoLog
  /\ lockOwner = 0
  /\ lockPid = NoPid
  /\ visible = {1}
  /\ fileContent = [f \in Files |-> <<>>]
  /\ manifestFile = ObjectFile(DemoManifest)

NextDispatch ==
  \/ \E s \in {NoSince, 10} : Start(1, "watch", s, FALSE)
  \/ \E s \in {NoSince, 10} : \E e \in BOOLEAN : Start(1, "once", s, e)
  \/ Open1(1)
  \/ Write1(1)
  \/ WatchInit(1)
  \/ LoopTop(1)
  \/ PollFile(1)
  \/ PassEnd(1)
  \/ Wake(1)
  \/ OnceEnd(1)
  \/ \E sym \in DispatchSymbols : AppendLine(1, sym)
  \/ \E d \in {RECENT_EVENT_TTL_MS, RECENT_EVENT_TTL_MS + 1} : Tick(d)

SpecDispatch == InitDispatch /\ [][NextDispatch]_vars

\* One once-mode invocation dispatches task_complete and approval events to
\* hook commands that succeed, fail, are killed, time out or cannot be
\* spawned.
HookSymbols == {"tc", "ex"}

InitHooks ==
  /\ InitCommon
  /\ InitNoLog
  /\ InitNoTool
  /\ InitCapacity
  /\ lockOwner = 0
  /\ lockPid = NoPid
  /\ visible = {1}
  /\ fileContent = [f \in Files |-> <<>>]
  /\ manifestFile = ObjectFile(DemoManifest)
  /\ hookBehaviour \in {[c \in CommandTexts |-> IF c \in FlakyCommands THEN b[c] ELSE "exit0"] :
                          b \in [FlakyCommands -> Behaviours]}

NextHooks ==
  \/ \E e \in BOOLEAN : Start(1, "once", NoSince, e)
  \/ PollFile(1)
  \/ OnceEnd(1)
  \/ \E sym \in HookSymbols : AppendLine(1, sym)

SpecHooks == InitHooks /\ [][NextHooks]_vars

\* One watcher tails two session files that grow line by line and may be
\* removed, until a termination signal or an exception ends it.
ShutdownSymbols == {"tc", "ts"}

InitShutdown ==
  /\ InitCommon
  /\ InitQuietHooks
  /\ InitNoTool
  /\ InitCapacity
  /\ InitNoLog
  /\ lockOwner = 0
  /\ lockPid = NoPid
  /\ visible = Files
  /\ fileContent = [f \in Files |-> <<>>]
  /\ manifestFile = ObjectFile(DemoManifest)

NextShutdown ==
  \/ Start(1, "watch", NoSince, FALSE)
  \/ Open1(1)
  \/ Write1(1)
  \/ WatchInit(1)
  \/ LoopTop(1)
  \/ PollFile(1)
  \/ PollThrows(1)
  \/ PassEnd(1)
  \/ Wake(1)
  \/ Signal(1)
  \/ ReleaseRead(1)
  \/ ReleaseUnlink(1)
  \/ Finish(1)
  \/ Abort(1)
  \/ \E f \in Files : \E sym \in ShutdownSymbols : AppendLine(f, sym)
  \/ \E f \in Files : DeleteFile(f)

SpecShutdown == InitShutdown /\ [][NextShutdown]_vars

\* One invocation, once or watch, started over a manifest file that is
\* absent, blank, not JSON, not an object, an object without the expected
\* arrays, or well-formed.
ManifestFiles ==
  {OtherFile(k) : k \in {"absent", "blank", "invalid", "null", "scalar"}}
    \cup {ObjectFile(DemoManifest),
          ManifestFile("object", NoMember, Member(TRUE, DemoManifest.topHooks)),
          ManifestFile("object", NoMember, NoMember)}

InitManifest ==
  /\ InitCommon
  /\ InitQuietHooks
  /\ InitNoTool
  /\ InitCapacity
  /\ InitNoLog
  /\ lockOwner = 0
  /\ lockPid = NoPid
  /\ visible = {1}
  /\ fileContent = [f \in Files |-> <<>>]
  /\ manifestFile \in ManifestFiles

NextManifest ==
  \/ Start(1, "watch", NoSince, FALSE)
  \/ \E e \in BOOLEAN : Start(1, "once", NoSince, e)
  \/ Open1(1)
  \/ Write1(1)
  \/ WatchInit(1)
  \/ LoopTop(1)
  \/ PollFile(1)
  \/ PassEnd(1)
  \/ Wake(1)
  \/ Signal(1)
  \/ ReleaseRead(1)
  \/ ReleaseUnlink(1)
  \/ Finish(1)
  \/ OnceEnd(1)
  \/ Abort(1)
  \/ AppendLine(1, "tc")

SpecManifest == InitManifest /\ [][NextManifest]_vars

\* A watcher starts over a debug log other bridge processes have written
\* to, some of them long ago, and runs its reaper.
InitReaper ==
  /\ InitCommon
  /\ InitQuietHooks
  /\ InitNoTool
  /\ InitCapacity
  /\ debugLog = [on |-> TRUE, fails |-> {}, records |-> <<>>]
  /\ lockOwner = 0
  /\ lockPid = NoPid
  /\ visible = {1}
  /\ fileContent = [f \in Files |-> <<>>]
  /\ manifestFile = ObjectFile(DemoManifest)

NextReaper ==
  \/ \E rec \in ForeignRecords(now) : LogForeign(rec)
  \/ \E d \in {WATCH_CLEANUP_ACTIVITY_WINDOW_MS, WATCH_CLEANUP_ACTIVITY_WINDOW_MS + 1} : Tick(d)
  \/ Start(1, "watch", NoSince, FALSE)
  \/ Reap(1)
  \/ Open1(1)
  \/ Write1(1)

SpecReaper == InitReaper /\ [][NextReaper]_vars

\* One watcher tails a session file that grows byte by byte and is
\* truncated or rotated now and then.
RotateBytes == {NL, "xx"}

InitRotate ==
  /\ InitCommon
  /\ InitQuietHooks
  /\ InitNoTool
  /\ InitCapacity
  /\ InitNoLog
  /\ lockOwner = 0
  /\ lockPid = NoPid
  /\ visible = {1}
  /\ fileContent = [f \in Files |-> <<>>]
  /\ manifestFile = ObjectFile(DemoManifest)

NextRotate ==
  \/ Start(1, "watch", NoSince, FALSE)
  \/ Open1(1)
  \/ Write1(1)
  \/ WatchInit(1)
  \/ LoopTop(1)
  \/ PollFile(1)
  \/ PassEnd(1)
  \/ Wake(1)
  \/ \E b \in RotateBytes : AppendByte(1, b)
  \/ \E n \in 0..MaxFileLen : Truncate(1, n)

SpecRotate == InitRotate /\ [][NextRotate]_vars

\* The sync tool runs over Claude sources and Codex targets of several
\* shapes: a home skill, a plugin (with an MCP file, or also with hooks and
\* skills), a home MCP file (its own, or one an earlier mirror has written
\* to), a project with an MCP file or a CLAUDE.md, a home hooks file, and a
\* Codex home that is empty, holds the user's config.toml, or holds what an
\* older sync left behind.
PluginRoot == ClaudeHome \o <<"plugins", "demo">>

SkillSource(has) ==
  IF has THEN {File(ClaudeHome \o <<"skills", "alpha", "SKILL.md">>, Text("alpha skill"))}
  ELSE {}

PluginSource(kind) ==
  (IF kind = "none" THEN {}
   ELSE {File(PluginRoot \o <<"plugin.json">>, Text("demo")),
         File(PluginRoot \o <<".mcp.json">>,
              McpJson({<<"shared", "plugin-command">>, <<"only", "plugin-only-command">>}))})
  \cup
  (IF kind = "skills"
   THEN {File(PluginRoot \o <<"hooks", "hooks.json">>, Text("plugin hooks")),
         File(PluginRoot \o <<"skills", "sk", "SKILL.md">>, Text("plugin skill"))}
   ELSE {})

HomeMcpSource(kind) ==
  CASE kind = "own" ->
         {File(ClaudeHome \o <<"mcp.json">>, McpJson({<<"shared", "home-command">>}))}
    [] kind = "mirrored" ->
         {File(ClaudeHome \o <<"mcp.json">>,
               McpJson({<<"shared", "home-command">>, <<"gone", "old-command">>})),
          File(StatePath, [NoData EXCEPT !.names = {"gone"}])}
    [] OTHER -> {}

ProjectSource(kind) ==
  (IF kind \in {"mcp", "both"}
   THEN {File(ProjectRoot \o <<".mcp.json">>, McpJson({<<"shared", "project-command">>}))}
   ELSE {})
  \cup
  (IF kind \in {"doc", "both"} THEN {File(ProjectRoot \o <<"CLAUDE.md">>, Text("doc"))}
   ELSE {})

HooksSource(has) ==
  IF has THEN {File(ClaudeHome \o <<"hooks", "hooks.json">>, Text("home hooks"))} ELSE {}

StaleConfig ==
  <<Tok("user"), Tok("nl"), Tok("start"), Tok("nl"),
    EntryTok(<<"gone", "old-command">>), Tok("nl"), Tok("end"), Tok("nl"),
    Tok("user"), Tok("nl")>>

CodexTarget(kind) ==
  CASE kind = "user" -> {File(ConfigPath, [NoData EXCEPT !.toml = <<Tok("user")>>])}
    [] kind = "stale" ->
         {File(ConfigPath, [NoData EXCEPT !.toml = StaleConfig]),
          File(CodexHome \o <<"skills", "claude-home", "old", "SKILL.md">>, Text("old skill")),
          File(CodexHome \o <<"hooks", "claude-home", "hooks.json">>, Text("old hooks")),
          File(ProjectRoot \o <<"agents.md">>, Text("own notes"))}
    [] OTHER -> {}

SyncDisks ==
  {Tree(SkillSource(skill) \cup PluginSource(plugin) \cup HomeMcpSource(homeMcp)
          \cup ProjectSource(project) \cup HooksSource(hooks) \cup CodexTarget(target))
     \cup {Dir(ClaudeHome), Dir(ProjectRoot)} :
     skill \in BOOLEAN, plugin \in {"none", "mcp", "skills"},
     homeMcp \in {"none", "own", "mirrored"},
     project \in {"none", "mcp", "doc", "both"},
     hooks \in BOOLEAN, target \in {"empty", "user", "stale"}}

InitSync ==
  /\ InitCommon
  /\ InitQuietHooks
  /\ InitNoLog
  /\ lockOwner = 0
  /\ lockPid = NoPid
  /\ visible = {}
  /\ fileContent = [f \in Files |-> <<>>]
  /\ manifestFile = ObjectFile(DemoManifest)
  /\ disk \in SyncDisks
  /\ InitCapacity
  /\ syncLog = NoRun
  /\ sessions = {}
  /\ located = NoLocate
  /\ rewrite = NoRewrite

NextSync == \E check \in BOOLEAN, symlinks \in BOOLEAN : SyncMain(check, symlinks)

SpecSync == InitSync /\ [][NextSync]_vars


\* The dedup cache alone: signatures are looked up while the clock advances
\* by a TTL or a little more; the cache holds one entry more than in the
\* other specifications, so that an expired entry can lie behind a fresh one.
Signatures == {<<"tc">>, <<"ts">>, <<"ex">>}

InitDedup ==
  /\ InitCommon
  /\ InitQuietHooks
  /\ InitNoTool
  /\ InitNoLog
  /\ recentMax = RECENT_EVENT_MAX + 1
  /\ lockOwner = 0
  /\ lockPid = NoPid
  /\ visible = {}
  /\ fileContent = [f \in Files |-> <<>>]
  /\ manifestFile = ObjectFile(DemoManifest)

NextDedup ==
  \/ \E signature \in Signatures : Lookup(1, signature)
  \/ \E d \in {RECENT_EVENT_TTL_MS, RECENT_EVENT_TTL_MS + 1} : Tick(d)

SpecDedup == InitDedup /\ [][NextDedup]_vars

\* Watchers start and take the lock, one of them possibly over the lock file
\* of an earlier watcher that died; the holder may be killed.
InitAcquire ==
  /\ InitCommon
  /\ InitQuietHooks
  /\ InitNoTool
  /\ InitCapacity
  /\ InitNoLog
  /\ \/ lockOwner = 0 /\ lockPid = NoPid
     \/ lockOwner = StalePid /\ lockPid = StalePid
     \/ lockOwner = StalePid /\ lockPid = NoPid
  /\ visible = {}
  /\ fileContent = [f \in Files |-> <<>>]
  /\ manifestFile = ObjectFile(DemoManifest)

NextAcquire ==
  \/ \E p \in Procs : Start(p, "watch", NoSince, FALSE)
  \/ \E p \in Procs : Open1(p)
  \/ \E p \in Procs : Write1(p)
  \/ \E p \in Procs : ReadLock(p)
  \/ \E p \in Procs : Probe(p)
  \/ \E p \in Procs : Unlink(p)
  \/ \E p \in Procs : Open2(p)
  \/ \E p \in Procs : Write2(p)
  \/ \E p \in Procs : Crash(p)

SpecAcquire == InitAcquire /\ [][NextAcquire]_vars

\* The locator is called, without a floor and with a floor of 10 s, on a tree
\* of some of these entries: files with the extension at depth 1, 2 and 3,
\* modified just before the floor, at it and less than a second after it;
\* a file with another extension; a directory whose name has the extension;
\* a symbolic link whose name has it.  The root exists, empty or not, or is
\* missing.

SessionName(cs) == cs \o JsonlExt

SessionPool ==
  {Entry(SessionsRoot \o <<SessionName(<<"a">>)>>, "file", 10999),
   Entry(SessionsRoot \o <<SessionName(<<"B">>)>>, "file", 10000),
   Entry(SessionsRoot \o <<SessionName(<<"a", "B">>)>>, "file", 9999),
   Entry(SessionsRoot \o <<SessionName(<<"B", "1">>)>>, "link", 10999),
   Entry(SessionsRoot \o << <<"a">>, SessionName(<<"B">>) >>, "file", 10999),
   Entry(SessionsRoot \o << <<"a">>, <<"a", "1", ".", "j", "s", "o", "n">> >>, "file", 10999),
   Entry(SessionsRoot \o << <<"a">>, <<"1">>, SessionName(<<"B">>) >>, "file", 10000),
   Entry(SessionsRoot \o << SessionName(<<"1">>), SessionName(<<"a">>) >>, "file", 9999)}

SessionTree(leaves) ==
  leaves \cup {Entry(d, "dir", 0) : d \in UNION {Ancestors(e.path) : e \in leaves}}
         \cup {Entry(SessionsRoot, "dir", 0)}

InitLocate ==
  /\ InitCommon
  /\ InitQuietHooks
  /\ InitCapacity
  /\ InitNoLog
  /\ lockOwner = 0
  /\ lockPid = NoPid
  /\ visible = {}
  /\ fileContent = [f \in Files |-> <<>>]
  /\ manifestFile = ObjectFile(DemoManifest)
  /\ disk = {}
  /\ syncLog = NoRun
  /\ sessions \in {{}} \cup {SessionTree(leaves) : leaves \in SUBSET SessionPool}
  /\ located = NoLocate
  /\ rewrite = NoRewrite

NextLocate == \E sinceEpochSec \in {NoSince, 10} : Locate(sinceEpochSec)

SpecLocate == InitLocate /\ [][NextLocate]_vars

\* Two invocations, once or watch, over the same session file and debug log;
\* the log writes of each of them all succeed or all fail.  An earlier
\* watcher may have left a start record in the log and a lock file.
Twins == {1, 2}

InitLogFail ==
  /\ InitCommon
  /\ InitQuietHooks
  /\ InitNoTool
  /\ InitCapacity
  /\ debugLog \in {[on |-> TRUE, fails |-> failing, records |-> <<>>] : failing \in SUBSET Twins}
  /\ \/ lockOwner = 0 /\ lockPid = NoPid
     \/ lockOwner = StalePid /\ lockPid = StalePid
  /\ visible = {1}
  /\ fileContent = [f \in Files |-> IF f = 1 THEN <<"tc", NL, "ex", NL>> ELSE <<>>]
  /\ manifestFile = ObjectFile(DemoManifest)

NextLogFail ==
  \/ LogForeign(LogRecord(StalePid, now, "bridge-start", "watch", OwnHome, OwnProject))
  \/ \E p \in Twins : \E m \in {"once", "watch"} : Start(p, m, NoSince, FALSE)
  \/ \E p \in Twins : Reap(p)
  \/ \E p \in Twins : Open1(p)
  \/ \E p \in Twins : Write1(p)
  \/ \E p \in Twins : ReadLock(p)
  \/ \E p \in Twins : Probe(p)
  \/ \E p \in Twins : Unlink(p)
  \/ \E p \in Twins : Open2(p)
  \/ \E p \in Twins : Write2(p)
  \/ \E p \in Twins : PollFile(p)
  \/ \E p \in Twins : OnceEnd(p)

SpecLogFail == InitLogFail /\ [][NextLogFail]_vars

\* One once-mode invocation reads lines of the kinds of record, blank lines,
\* text that is not JSON and two records on one line.
ParseBytes == (RecordSymbols \ {"ts", "am", "ex"}) \cup {" ", "xx"}

InitParse ==
  /\ InitCommon
  /\ InitQuietHooks
  /\ InitNoTool
  /\ InitCapacity
  /\ InitNoLog
  /\ lockOwner = 0
  /\ lockPid = NoPid
  /\ visible = {1}
  /\ fileContent \in {[f \in Files |-> IF f = 1 THEN text ELSE <<>>] :
                         text \in {<<>>, <<"tc", "tc", NL>>, <<" ", "ap", " ", NL>>}}
  /\ manifestFile = ObjectFile(DemoManifest)

NextParse ==
  \/ Start(1, "once", NoSince, FALSE)
  \/ PollFile(1)
  \/ OnceEnd(1)
  \/ \E sym \in ParseBytes : AppendLine(1, sym)

SpecParse == InitParse /\ [][NextParse]_vars

\* One watcher starts over a debug log to which two earlier watchers, which
\* still exist or not, have written.
ReapRecords(nowMs) ==
  {LogRecord(StalePid, nowMs, "bridge-start", "watch", OwnHome, OwnProject),
   LogRecord(StalePid, nowMs, "bridge-stop", "watch", "", ""),
   LogRecord(StalePid + 1, nowMs, "bridge-start", "watch", OwnHome, OwnProject),
   LogRecord(1, nowMs, "bridge-start", "watch", OwnHome, OwnProject)}

InitReap ==
  /\ InitCommon
  /\ InitQuietHooks
  /\ InitNoTool
  /\ InitCapacity
  /\ debugLog = [on |-> TRUE, fails |-> {}, records |-> <<>>]
  /\ lockOwner = 0
  /\ lockPid = NoPid
  /\ visible = {1}
  /\ fileContent = [f \in Files |-> <<>>]
  /\ manifestFile = ObjectFile(DemoManifest)

NextReap ==
  \/ \E rec \in ReapRecords(now) : LogForeign(rec)
  \/ Start(1, "watch", NoSince, FALSE)
  \/ Reap(1)
  \/ Open1(1)
  \/ Write1(1)
  \/ WatchInit(1)

SpecReap == InitReap /\ [][NextReap]_vars

\* One watcher, never signalled, over session files that appear while it
\* runs (the second file may hold a line and a fragment before the locator
\* sees it), grow, and disappear.
InitDiscover ==
  /\ InitCommon
  /\ InitQuietHooks
  /\ InitNoTool
  /\ InitCapacity
  /\ InitNoLog
  /\ lockOwner = 0
  /\ lockPid = NoPid
  /\ visible \in {{}, {1}}
  /\ fileContent \in {[f \in Files |-> IF f = 2 THEN text ELSE <<>>] :
                         text \in {<<>>, <<"ts", NL, "tc">>}}
  /\ manifestFile = ObjectFile(DemoManifest)

NextDiscover ==
  \/ Start(1, "watch", NoSince, FALSE)
  \/ Open1(1)
  \/ Write1(1)
  \/ WatchInit(1)
  \/ LoopTop(1)
  \/ PollFile(1)
  \/ PollThrows(1)
  \/ PassEnd(1)
  \/ Wake(1)
  \/ ReleaseRead(1)
  \/ ReleaseUnlink(1)
  \/ Abort(1)
  \/ \E f \in Files : AppendLine(f, "tc")
  \/ \E f \in Files : CreateFile(f)
  \/ \E f \in Files : DeleteFile(f)

SpecDiscover == InitDiscover /\ [][NextDiscover]_vars

\* One once-mode invocation dispatches task_complete and task_started events
\* to the hook commands of several sources; two of the commands succeed, fail
\* or cannot be spawned.
OrderSymbols == {"tc", "ts"}
OrderFlaky == {"notify", "top1"}

InitOrder ==
  /\ InitCommon
  /\ InitNoLog
  /\ InitNoTool
  /\ InitCapacity
  /\ lockOwner = 0
  /\ lockPid = NoPid
  /\ visible = {1}
  /\ fileContent = [f \in Files |-> <<>>]
  /\ manifestFile = ObjectFile(OrderManifest)
  /\ hookBehaviour \in {[c \in CommandTexts |-> IF c \in OrderFlaky THEN b[c] ELSE "exit0"] :
                          b \in [OrderFlaky -> Behaviours]}

NextOrder ==
  \/ \E e \in BOOLEAN : Start(1, "once", NoSince, e)
  \/ PollFile(1)
  \/ OnceEnd(1)
  \/ \E sym \in OrderSymbols : AppendLine(1, sym)

SpecOrder == InitOrder /\ [][NextOrder]_vars

(***************************************************************************)
(* Claims about the watch lock (SpecLock).                                 *)
(***************************************************************************)
\* acquireWatchLock returned the release closure and the closure has not run.
Watching == {"acquired", "looptop", "pass", "sleep"}

Holders == {p \in Procs : pc[p] \in Watching}

\* C1: at most one live process at a time holds a successful acquisition of
\* the watch lock that it has not released yet.
C1_MutualExclusion == Cardinality(Holders) <= 1

\* C2: a process that began to acquire when the lock file recorded the PID of
\* a process that had ended, and that no other process contended with, ends
\* its one call with the lock recovered: the call reports success and, when
\* it returns, the lock file is the one this process created and carries its
\* PID.
C2_StaleRecovery ==
  \A p \in Procs :
    (startedStale[p] /\ ~contended[p] /\ outcome[p] # "none") =>
      /\ outcome[p] = "recovered"
      /\ pc[p] = "acquired" => (lockOwner = p /\ lockPid = p)

C2_Witness ==
  \E p \in Procs :
    /\ startedStale[p] /\ ~contended[p]
    /\ outcome[p] = "recovered" /\ pc[p] = "acquired"
    /\ lockOwner = p /\ lockPid = p

\* C3: a process whose acquisition found the lock file of a live process has
\* returned from watch() normally, has not changed the lock file, has primed
\* no offset, has decided no line of any session file and has run no hook
\* command.
C3_BusyLeavesNoTrace ==
  \A p \in Procs :
    outcome[p] = "busy-live" =>
      /\ pc[p] = "done"
      /\ ~mutated[p]
      /\ \A f \in Files : offsets[p][f] = NoEntry
      /\ decided[p] = <<>>
      /\ ran[p] = <<>>

C3_Witness ==
  \E p, q \in Procs :
    /\ outcome[p] = "busy-live" /\ pc[p] = "done"
    /\ lockPid = q /\ pc[q] \in Watching /\ ran[q] # <<>>

\* C4: when the release closure deletes the lock file, the file it deletes
\* records the PID of the releasing process.
C4_ReleaseDeletesOnlyOwn ==
  [][\A p \in Procs :
       (pc[p] = "relUnlink" /\ pc'[p] = "stopLog" /\ lockOwner # 0 /\ lockOwner' = 0)
         => lockPid = p]_vars

(***************************************************************************)
(* Claims about the tailer (SpecTail).                                     *)
(***************************************************************************)
\* The process is running: it has started and has not ended.
Running(p) == pc[p] \notin {"idle", "done", "dead"}

\* state.offsets.get(filePath) || 0
TrackedOffset(p, f) == IF offsets[p][f] = NoEntry THEN 0 ELSE offsets[p][f]

\* The decisions of p on the lines of file f, in the order taken.
DecisionsOf(p, f) == SelectSeq(decided[p], LAMBDA d : d.file = f)

\* Text up to what the decoding of one chunk and the decoding of its parts
\* agree on: every byte of a non-ASCII character counts as one U+FFFD.
RECURSIVE Blur(_)
Blur(text) ==
  IF text = <<>> THEN <<>>
  ELSE (IF Head(text) = NonAscii THEN <<Replacement, Replacement>>
        ELSE IF Head(text) \in {"c3", "a9"} THEN <<Replacement>>
        ELSE <<Head(text)>>) \o Blur(Tail(text))

\* C5: no lost tail.  While a process runs on files that only grow, the
\* decisions it has taken on a file are, one for one and in file order, the
\* newline-terminated lines of the bytes it has consumed (the file up to the
\* stored offset), and the bytes after the last consumed newline are its
\* remainder, not yet decided.  Hence no complete line is skipped or decided
\* twice, and a fragment is decided once, when its newline arrives.
C5_NoLostTail ==
  \A p \in Procs : \A f \in Files :
    Running(p) =>
      LET consumed == SplitLines(SubSeq(fileContent[f], 1, TrackedOffset(p, f)))
          ds == DecisionsOf(p, f)
      IN /\ Len(ds) = Len(consumed) - 1
         /\ \A i \in 1..Len(ds) : Blur(ds[i].line) = Blur(consumed[i])
         /\ Blur(remainders[p][f]) = Blur(Last(consumed))

\* A line was polled as a fragment (the decoded text shows that a poll ended
\* between the two bytes of its character), was decided once after its
\* newline arrived, and the bytes appended after that newline wait as
\* remainder.
C5_Witness ==
  /\ Running(1)
  /\ fileContent[1] = <<"c3", "a9", NL, "tc">>
  /\ offsets[1][1] = 4
  /\ Len(decided[1]) = 1
  /\ decided[1][1].line = <<Replacement, Replacement>>
  /\ remainders[1][1] = <<"tc">>

\* C6: idempotent tailing.  A call of processSessionFile on a file whose size
\* equals the stored offset runs no hook command, takes no decision and
\* leaves the offsets, the remainders and the dedup cache as they were.
C6_IdempotentTailing ==
  [][\A p \in Procs :
       (/\ pc[p] \in {"pass", "oncepass"}
        /\ todo[p] # <<>>
        /\ todo'[p] = Tail(todo[p])
        /\ Len(fileContent[Head(todo[p])]) = TrackedOffset(p, Head(todo[p])))
       => /\ offsets'[p] = offsets[p]
          /\ remainders'[p] = remainders[p]
          /\ recentEvents'[p] = recentEvents[p]
          /\ decided'[p] = decided[p]
          /\ ran'[p] = ran[p]]_vars

\* A poll of the unchanged, already consumed file has returned early after
\* an event of that file was dispatched and cached.
C6_Witness ==
  /\ lastSkip[1] # <<>>
  /\ lastSkip[1][2] > 0
  /\ lastSkip[1][2] = offsets[1][1]
  /\ ran[1] # <<>>
  /\ recentEvents[1] # <<>>
  /\ Len(decided[1]) = 1

(***************************************************************************)
(* Claims about dedup and dispatch (SpecDispatch).                         *)
(***************************************************************************)
\* The line reached the dedup cache: not blank, parsed, not since-filtered.
Accepted(d) == d.verdict \in {"deduped", "dispatched"}

\* Decisions i < j of p are on accepted lines of the same text, with no
\* accepted line of that text between them.
ConsecutiveSame(p, i, j) ==
  /\ i < j
  /\ Accepted(decided[p][i])
  /\ Accepted(decided[p][j])
  /\ decided[p][i].line = decided[p][j].line
  /\ \A k \in (i + 1)..(j - 1) :
       ~(Accepted(decided[p][k]) /\ decided[p][k].line = decided[p][i].line)

\* The distinct texts among the accepted lines of p up to decision j.
DistinctAccepted(p, j) ==
  {decided[p][k].line : k \in {n \in 1..j : Accepted(decided[p][n])}}

\* C7 as stated: of two accepted lines of identical text with no identical
\* line between them, the later one is dispatched iff it is processed more
\* than TTL after the earlier one, whatever number of other lines is
\* processed between the two.
C7_DedupWindowAnyGap ==
  \A p \in Procs : \A i, j \in 1..Len(decided[p]) :
    ConsecutiveSame(p, i, j) =>
      (decided[p][j].verdict = "dispatched"
         <=> decided[p][j].at - decided[p][i].at > RECENT_EVENT_TTL_MS)

\* C7: dedup window, up to the capacity of the cache.  Of two accepted lines
\* of identical text with no identical line between them, the later one is
\* dispatched iff it is processed more than TTL after the earlier one,
\* provided the run has accepted at most RECENT_EVENT_MAX distinct texts up
\* to the later line.
C7_DedupWindow ==
  \A p \in Procs : \A i, j \in 1..Len(decided[p]) :
    (ConsecutiveSame(p, i, j) /\ Cardinality(DistinctAccepted(p, j)) <= RECENT_EVENT_MAX) =>
      (decided[p][j].verdict = "dispatched"
         <=> decided[p][j].at - decided[p][i].at > RECENT_EVENT_TTL_MS)

\* The same line three times: dispatched, suppressed within TTL, and
\* dispatched again more than TTL after the suppressed one.
C7_Witness ==
  /\ Len(decided[1]) = 3
  /\ \A i \in 1..3 : decided[1][i].line = <<"tc">>
  /\ decided[1][1].verdict = "dispatched"
  /\ decided[1][2].verdict = "deduped"
  /\ decided[1][2].at - decided[1][1].at <= RECENT_EVENT_TTL_MS
  /\ decided[1][3].verdict = "dispatched"
  /\ decided[1][3].at - decided[1][2].at > RECENT_EVENT_TTL_MS

\* The rules of a manifest, each with the id of its source.
ManifestRules(man) ==
  LET sources == man.plugins \o man.topHooks
  IN UNION {{[source |-> sources[s].id, rule |-> sources[s].events[r]] :
               r \in 1..Len(sources[s].events)} : s \in 1..Len(sources)}

CommandsOf(rule) == {rule.commands[n].command : n \in 1..Len(rule.commands)}

\* The event of a decision: of a log line, or the synthetic Stop event.
EventOf(d) == IF d.verdict = "synthetic" THEN StopEvent ELSE parseCodexEvent(d.line)

\* How often p ran command c of the rule for the event of its decision i.
RunsFor(p, sr, c, i) ==
  Cardinality({k \in 1..Len(ran[p]) :
     /\ ran[p][k].ev = i
     /\ ran[p][k].source = sr.source
     /\ ran[p][k].eventName = sr.rule.eventName
     /\ ran[p][k].matcher = sr.rule.matcher
     /\ ran[p][k].command = c})

\* How often p ran command c of the rule in all.
RunsOf(p, sr, c) ==
  Cardinality({k \in 1..Len(ran[p]) :
     /\ ran[p][k].source = sr.source
     /\ ran[p][k].eventName = sr.rule.eventName
     /\ ran[p][k].matcher = sr.rule.matcher
     /\ ran[p][k].command = c})

\* The commands p ran for the event of its decision i, in the order run.
CommandsRunFor(p, i) ==
  LET picked == SelectSeq(ran[p], LAMBDA e : e.ev = i)
  IN [k \in 1..Len(picked) |-> picked[k].command]

\* C8: name-mapping fan-out.  Every dispatched task_complete line runs, once
\* each and from that one line, the commands of every matcher-less rule
\* subscribed to TaskComplete, to Stop, and to the raw type task_complete.
C8_FanOut ==
  \A p \in Procs : \A i \in 1..Len(decided[p]) :
    (/\ decided[p][i].verdict = "dispatched"
     /\ parseCodexEvent(decided[p][i].line).rawType = "task_complete") =>
      \A sr \in ManifestRules(manifest) :
        (/\ sr.rule.matcher = NoMatcher
         /\ sr.rule.eventName \in {"TaskComplete", "Stop", "task_complete"}) =>
          \A c \in CommandsOf(sr.rule) : RunsFor(p, sr, c, i) = 1

\* One task_complete line was dispatched and ran the Stop rule, the
\* TaskComplete rule and the rule on the raw type.
C8_Witness ==
  /\ manifest = DemoManifest
  /\ \E i \in 1..Len(decided[1]) :
       /\ decided[1][i].verdict = "dispatched"
       /\ decided[1][i].line = <<"tc">>
       /\ CommandsRunFor(1, i) = <<"stop", "complete", "raw">>

\* The dispatched log lines of p whose expanded name list contains name.
MatchingLines(p, name) ==
  {i \in 1..Len(decided[p]) :
     /\ decided[p][i].verdict = "dispatched"
     /\ Includes(mapEventNames(parseCodexEvent(decided[p][i].line).rawType), name)}

\* The synthetic Stop events p dispatched.
SyntheticStops(p) == {i \in 1..Len(decided[p]) : decided[p][i].verdict = "synthetic"}

\* C9 as stated: in once mode each command of a matcher-less rule bound to
\* name N has run as many times as there are dispatched log lines whose
\* expanded name list contains N.
C9_RunsEqualMatchingLines ==
  \A p \in Procs : mode[p] = "once" =>
    \A sr \in ManifestRules(manifest) : sr.rule.matcher = NoMatcher =>
      \A c \in CommandsOf(sr.rule) :
        RunsOf(p, sr, c) = Cardinality(MatchingLines(p, sr.rule.eventName))

\* C9: exactly-once firing in once mode.  Each command of a matcher-less rule
\* bound to name N runs once for every dispatched log line whose expanded
\* name list contains N, never for another log line, and, for N = Stop, once
\* more for the synthetic Stop event of --emit-stop.
C9_ExactlyOnce ==
  \A p \in Procs : mode[p] = "once" =>
    \A sr \in ManifestRules(manifest) : sr.rule.matcher = NoMatcher =>
      \A c \in CommandsOf(sr.rule) :
        /\ \A i \in 1..Len(decided[p]) :
             RunsFor(p, sr, c, i) =
               IF \/ i \in MatchingLines(p, sr.rule.eventName)
                  \/ (i \in SyntheticStops(p) /\ sr.rule.eventName = "Stop")
                 THEN 1 ELSE 0
        /\ RunsOf(p, sr, c) =
             Cardinality(MatchingLines(p, sr.rule.eventName))
               + (IF sr.rule.eventName = "Stop" THEN Cardinality(SyntheticStops(p)) ELSE 0)

\* A once run over a task_started line and a task_complete line, ended with
\* --emit-stop: the TaskComplete rule ran once, the Stop rule twice.
C9_Witness ==
  /\ mode[1] = "once"
  /\ pc[1] = "done"
  /\ emitStop[1]
  /\ manifest = DemoManifest
  /\ Len(decided[1]) = 3
  /\ decided[1][1].line = <<"ts">> /\ decided[1][1].verdict = "dispatched"
  /\ decided[1][2].line = <<"tc">> /\ decided[1][2].verdict = "dispatched"
  /\ decided[1][3].verdict = "synthetic"
  /\ [k \in 1..Len(ran[1]) |-> ran[1][k].command] = <<"stop", "complete", "raw", "stop">>

\* C10: matcher gating.  For every dispatched event and every rule whose
\* eventName is in the event's expanded name list, each command of the rule
\* runs once if the rule has no matcher or its regular expression matches
\* the matcher text of the event, and not at all otherwise; a matcher that
\* does not compile counts as no match, and the rules after it are still
\* evaluated.
C10_MatcherGating ==
  \A p \in Procs : \A i \in 1..Len(decided[p]) :
    decided[p][i].verdict \in {"dispatched", "synthetic"} =>
      LET ev == EventOf(decided[p][i])
      IN \A sr \in ManifestRules(manifest) :
           Includes(mapEventNames(ev.rawType), sr.rule.eventName) =>
             \A c \in CommandsOf(sr.rule) :
               RunsFor(p, sr, c, i) =
                 IF \/ sr.rule.matcher.kind = "none"
                    \/ /\ sr.rule.matcher.kind = "regex"
                       /\ RegExpTest(sr.rule.matcher, buildMatcherText(ev))
                   THEN 1 ELSE 0

\* An exec_approval_request for "rm -rf /tmp" was dispatched: the rules on
\* ^deploy and on the matcher that does not compile did not run, the rules
\* after them did.
C10_Witness ==
  /\ manifest = DemoManifest
  /\ \E i \in 1..Len(decided[1]) :
       /\ decided[1][i].verdict = "dispatched"
       /\ buildMatcherText(parseCodexEvent(decided[1][i].line))
            = <<"exec_approval_request", "rm", "-rf", "/tmp">>
       /\ CommandsRunFor(1, i) = <<"rm", "ask", "exec-rm">>

(***************************************************************************)
(* Claims about hook failures (SpecHooks).                                 *)
(***************************************************************************)
\* The commands of the rules of a source that an event triggers, in order.
RECURSIVE TriggeredOfRules(_, _)
TriggeredOfRules(rules, ev) ==
  IF rules = <<>> THEN <<>>
  ELSE (IF /\ Includes(mapEventNames(ev.rawType), Head(rules).eventName)
           /\ matchesRule(Head(rules).matcher, buildMatcherText(ev))
          THEN [n \in 1..Len(Head(rules).commands) |-> Head(rules).commands[n].command]
          ELSE <<>>) \o TriggeredOfRules(Tail(rules), ev)

\* The commands an event triggers: plugin sources first, then top level.
RECURSIVE TriggeredOfSources(_, _)
TriggeredOfSources(sources, ev) ==
  IF sources = <<>> THEN <<>>
  ELSE TriggeredOfRules(Head(sources).events, ev) \o TriggeredOfSources(Tail(sources), ev)

TriggeredCommands(man, ev) == TriggeredOfSources(man.plugins \o man.topHooks, ev)

\* C11: fire-and-continue.  Whatever the results of the hook commands, the
\* commands run for every dispatched event are all the commands the event
\* triggers, in manifest order, and every complete line the run has consumed
\* has its decision: no failure cuts an event or a pass short.
C11_FireAndContinue ==
  \A p \in Procs :
    /\ \A i \in 1..Len(decided[p]) :
         decided[p][i].verdict \in {"dispatched", "synthetic"} =>
           CommandsRunFor(p, i) = TriggeredCommands(manifest, EventOf(decided[p][i]))
    /\ \A f \in Files :
         Len(DecisionsOf(p, f))
           = Len(SplitLines(SubSeq(fileContent[f], 1, TrackedOffset(p, f)))) - 1

\* A command timed out, the next one of the same event made spawnSync throw,
\* the third exited with 1; the event after it and the synthetic Stop event
\* were dispatched all the same, and the run ended normally.
C11_Witness ==
  /\ pc[1] = "done"
  /\ hookBehaviour["stop"] = "timeout"
  /\ hookBehaviour["complete"] = "throws"
  /\ hookBehaviour["raw"] = "exit1"
  /\ Len(decided[1]) = 3
  /\ decided[1][1].line = <<"tc">> /\ decided[1][1].verdict = "dispatched"
  /\ decided[1][2].line = <<"ex">> /\ decided[1][2].verdict = "dispatched"
  /\ decided[1][3].verdict = "synthetic"
  /\ [k \in 1..Len(ran[1]) |-> ran[1][k].command]
       = <<"stop", "complete", "raw", "rm", "ask", "exec-rm", "stop">>
  /\ ran[1][1].result.timedOut
  /\ ~ran[1][2].result.ok
  /\ ran[1][3].result.status = 1

(***************************************************************************)
(* Claims about shutdown (SpecShutdown).                                   *)
(***************************************************************************)
\* The loop was left by the break and the finally block is running or done.
LeftByBreak(p) == pc[p] \in {"relRead", "relUnlink", "stopLog"}

\* C12: shutdown in watch mode.  Once the stop flag is set the watcher never
\* sleeps again; when it has left the loop by the break, every session file
\* that still exists has been read at least up to the size it had when the
\* signal set the flag and each of its complete lines up to there is
\* decided; and after the finally block, on the way out by the break and on
\* the way out by an exception alike, the lock file of the watcher is gone.
C12_Shutdown ==
  \A p \in Procs : mode[p] = "watch" =>
    /\ stopping[p] => pc[p] # "sleep"
    /\ LeftByBreak(p) =>
         /\ stopping[p]
         /\ \A f \in visible :
              sigSeen[p][f] # NoEntry =>
                /\ TrackedOffset(p, f) >= sigSeen[p][f]
                /\ Len(DecisionsOf(p, f))
                     >= Len(SplitLines(SubSeq(fileContent[f], 1, sigSeen[p][f]))) - 1
    /\ pc[p] \in {"stopLog", "abort"} => lockOwner # p

\* The watcher left by the break and released the lock; the line of the
\* second file was there when the signal arrived (the file has not grown
\* since) and was consumed by the last poll of the final pass.
C12_Witness ==
  /\ pc[1] = "stopLog"
  /\ lockOwner = 0
  /\ 2 \in visible
  /\ sigSeen[1][2] = 2
  /\ Len(fileContent[2]) = 2
  /\ offsets[1][2] = 2
  /\ lastSkip[1] = <<>>
  /\ Len(DecisionsOf(1, 2)) = 1

\* The indices of the runs p made for its decision i.
RunsOfDecision(p, i) == {k \in 1..Len(ran[p]) : ran[p][k].ev = i}

Started(p) == pc[p] # "idle"
Failed(p) == pc[p] \in {"abort", "dead"}

\* The manifest files without a JSON object in them.
NoObjectKinds == {"absent", "blank", "invalid", "null", "scalar"}

RecordsOfPid(log, pid) == {i \in 1..Len(log) : log[i].pid = pid}
StartsOfPid(log, pid) == {i \in RecordsOfPid(log, pid) : log[i].kind = "bridge-start"}
Latest(positions) == CHOOSE i \in positions : \A j \in positions : j <= i

\* The rule of the claim: the last start the log records for the PID is a
\* watch start of the reader's target, no watch stop of the PID follows it,
\* and the latest record of the PID is at most six hours old.
LiveWatcherByLog(log, pid, nowMs) ==
  /\ StartsOfPid(log, pid) # {}
  /\ LET start == Latest(StartsOfPid(log, pid))
     IN /\ log[start].mode = "watch"
        /\ log[start].codexHome = OwnHome
        /\ log[start].projectRoot = OwnProject
        /\ \A i \in RecordsOfPid(log, pid) :
             i > start => ~(log[i].kind = "bridge-stop" /\ log[i].mode = "watch")
  /\ nowMs - log[Latest(RecordsOfPid(log, pid))].ts <= WATCH_CLEANUP_ACTIVITY_WINDOW_MS

\* C15: reaper candidate rule.  The reaper of a watcher signals a PID other
\* than its own if and only if, by the records of the debug log in order,
\* the last recorded start of the PID is a watch start with no stop after
\* it, for the codexHome and projectRoot of this invocation, and the latest
\* record of the PID is within six hours of now.
C15_ReaperCandidateRule ==
  \A p \in Procs : reaped[p] # <<>> =>
    \A pid \in ForeignPids :
      pid \in reaped[p][1].pids
        <=> LiveWatcherByLog(reaped[p][1].log, pid, reaped[p][1].at)

\* The files still to be processed in the pass of p.
Pending(p) == {todo[p][k] : k \in 1..Len(todo[p])}

\* What a once run has reached: a file not yet processed has no offset and
\* no decision, so its pass starts at byte 0, and it is listed once; during
\* the pass no synthetic event exists; at the end every located file is
\* processed and the synthetic Stop events are exactly one, the last
\* decision, when --emit-stop was given and none otherwise, and that Stop
\* ran every command it triggers, whatever the since floor.
OnceProgress(p) ==
  /\ \A f \in Pending(p) : offsets[p][f] = NoEntry /\ DecisionsOf(p, f) = <<>>
  /\ \A j, k \in 1..Len(todo[p]) : todo[p][j] = todo[p][k] => j = k
  /\ pc[p] = "oncepass" => SyntheticStops(p) = {}
  /\ pc[p] = "done" =>
       /\ todo[p] = <<>>
       /\ SyntheticStops(p) = (IF emitStop[p] THEN {Len(decided[p])} ELSE {})
       /\ \A i \in SyntheticStops(p) :
            CommandsRunFor(p, i) = TriggeredCommands(manifest, StopEvent)

\* A processed file is not processed again, and an ended run does nothing.
OnceStep(p) ==
  /\ pc[p] = "oncepass" =>
       \A f \in Files \ Pending(p) :
         /\ offsets'[p][f] = offsets[p][f]
         /\ DecisionsOf(p, f)' = DecisionsOf(p, f)
  /\ pc[p] = "done" =>
       /\ pc'[p] = "done"
       /\ decided'[p] = decided[p]
       /\ ran'[p] = ran[p]

\* C16: once mode.  Each located session file is processed in one pass that
\* starts at byte 0 and is never repeated; with --emit-stop exactly one
\* synthetic Stop is dispatched, after all file events, also when no file
\* produced an event and whatever the since floor; without --emit-stop no
\* synthetic event is dispatched; then the run ends.
C16_OnceMode ==
  /\ [](\A p \in Procs : mode[p] = "once" /\ Started(p) => OnceProgress(p))
  /\ [][\A p \in Procs : mode[p] = "once" /\ Started(p) => OnceStep(p)]_vars

\* A once run with --emit-stop and floor 10 over a file whose only line is
\* older than the floor has ended: the line was filtered, the synthetic Stop
\* was dispatched and ran the Stop rule's command.
C16_Witness ==
  /\ mode[1] = "once"
  /\ pc[1] = "done"
  /\ emitStop[1]
  /\ since[1] = 10
  /\ offsets[1][1] = 2
  /\ Len(decided[1]) = 2
  /\ decided[1][1].verdict = "filtered"
  /\ decided[1][2].verdict = "synthetic"
  /\ CommandsRunFor(1, 2) = <<"stop">>

\* The step is a poll of file f by p that finds f shorter than p's offset.
PollsTruncated(p, f) ==
  /\ pc[p] \in {"pass", "oncepass"}
  /\ todo[p] # <<>>
  /\ Head(todo[p]) = f
  /\ todo'[p] = Tail(todo[p])
  /\ Len(fileContent[f]) < TrackedOffset(p, f)

\* C17: truncation and rotation.  A poll that finds a file shorter than the
\* stored offset reads it from byte 0 to its size: the decisions it adds are
\* one per complete line of the present content, on those lines, and the
\* remainder it leaves is the unfinished last line of the present content,
\* with nothing of the old content in it.
C17_Truncation ==
  [][\A p \in Procs : \A f \in Files :
       PollsTruncated(p, f) =>
         LET lines == SplitLines(Utf8Decode(fileContent[f]))
             before == Len(decided[p])
         IN /\ remainders'[p][f] = Last(lines)
            /\ Len(decided'[p]) = before + Len(lines) - 1
            /\ \A k \in 1..(Len(lines) - 1) :
                 /\ decided'[p][before + k].file = f
                 /\ decided'[p][before + k].line = lines[k]]_vars

(***************************************************************************)
(* Claims about the sync tool (SpecSync).                                  *)
(***************************************************************************)
\* The sources of the last run held a plugin with skills, a project MCP
\* file and a CLAUDE.md.
RichSources(fs) ==
  /\ existsSync(fs, PluginRoot \o <<"skills", "sk", "SKILL.md">>)
  /\ existsSync(fs, ProjectRoot \o <<".mcp.json">>)
  /\ existsSync(fs, ProjectRoot \o <<"CLAUDE.md">>)

C19_SyncConverges ==
  (syncLog.ran /\ ~syncLog.check) =>
    \A symlinks \in BOOLEAN :
      /\ ~syncRuntimeSources(disk, TRUE, symlinks).changed
      /\ syncRuntimeSources(disk, FALSE, symlinks).fs = disk

\* The same server name is defined by the plugin, by home and by the project.
SharedByAll(fs) ==
  /\ existsSync(fs, PluginRoot \o <<".mcp.json">>)
  /\ existsSync(fs, ClaudeHome \o <<"mcp.json">>)
  /\ existsSync(fs, ProjectRoot \o <<".mcp.json">>)
  /\ \A path \in {PluginRoot \o <<".mcp.json">>, ClaudeHome \o <<"mcp.json">>,
                  ProjectRoot \o <<".mcp.json">>} :
       "shared" \in ServerNamesOf(readFileSync(fs, path).servers)

ConfigText == IF existsSync(disk, ConfigPath) THEN readFileSync(disk, ConfigPath).toml ELSE <<>>
EntriesNamed(name) ==
  {i \in 1..Len(ConfigText) : ConfigText[i].k = "entry" /\ ConfigText[i].name = name}

\* C20: when the plugin, the home mcp.json and the project .mcp.json define
\* the same server name, the managed block written by a sync holds exactly
\* one entry of that name, with the project's definition, and the servers
\* only the plugin defines are in the block too.
C20_McpPrecedence ==
  (syncLog.ran /\ ~syncLog.check /\ SharedByAll(syncLog.before)) =>
    /\ Cardinality(EntriesNamed("shared")) = 1
    /\ \A s \in readFileSync(syncLog.before, ProjectRoot \o <<".mcp.json">>).servers :
         s[1] = "shared" =>
           \A i \in EntriesNamed("shared") : ConfigText[i].def = s[2]
    /\ \A s \in readFileSync(syncLog.before, PluginRoot \o <<".mcp.json">>).servers :
         s[1] # "shared" => s \in ManagedServers(ConfigText)

\* A sync has merged the three definitions of "shared" and the plugin's
\* own server, over a home file that held the home definition.
C20_Witness ==
  /\ syncLog.ran
  /\ ~syncLog.check
  /\ SharedByAll(syncLog.before)
  /\ <<"shared", "home-command">> \in readFileSync(syncLog.before, ClaudeHome \o <<"mcp.json">>).servers
  /\ <<"shared", "project-command">> \in ManagedServers(ConfigText)
  /\ <<"only", "plugin-only-command">> \in ManagedServers(ConfigText)

(***************************************************************************)
(* Claims about the dedup cache (SpecDedup).                               *)
(***************************************************************************)
\* The entry of the cache of p for a signature; <<>> when there is none.
EntryOf(p, signature) ==
  IF KeyIndex(recentEvents[p], signature) = 0 THEN <<>>
  ELSE <<recentEvents[p][KeyIndex(recentEvents[p], signature)]>>

\* Decisions i..j of p include a chain of lookups of the text of j, each at
\* most TTL after the one before it, that starts at i.
RECURSIVE Recurring(_, _, _)
Recurring(p, i, j) ==
  \/ i = j
  \/ \E k \in i..(j - 1) :
       /\ ConsecutiveSame(p, k, j)
       /\ decided[p][j].at - decided[p][k].at <= RECENT_EVENT_TTL_MS
       /\ Recurring(p, i, k)

AfterSet(p) ==
  LET signature == decided'[p][Len(decided'[p])].line
      idx == KeyIndex(recentEvents[p], signature)
  IN IF idx > 0 THEN [recentEvents[p] EXCEPT ![idx].seenAt = now]
     ELSE Append(recentEvents[p], [key |-> signature, seenAt |-> now])

\* The entries seen within TTL, in insertion order, and of these the last
\* ones that fit the capacity.
PurgedFirst(entries, nowMs) ==
  LET fresh == SelectSeq(entries, LAMBDA e : nowMs - e.seenAt <= RECENT_EVENT_TTL_MS)
  IN IF Len(fresh) > recentMax
       THEN SubSeq(fresh, Len(fresh) - recentMax + 1, Len(fresh))
     ELSE fresh

\* C22: when an insertion makes the cache exceed its capacity, the entries
\* older than TTL are removed first, and entries seen within TTL are removed,
\* in insertion order, only while the cache is still over capacity after
\* that purge.
C22_EvictionOrder ==
  [][\A p \in Procs :
       (decided'[p] # decided[p] /\ Len(AfterSet(p)) > recentMax)
         => recentEvents'[p] = PurgedFirst(AfterSet(p), now)]_vars

\* C23: after every call of recordAndCheckDuplicateEvent the cache holds at
\* most its capacity of entries (RECENT_EVENT_MAX, scaled), and the entry of
\* the signature just looked up is present with last-seen time now.
C23_CacheBounded ==
  \A p \in Procs :
    /\ Len(recentEvents[p]) <= recentMax
    /\ \A i, j \in 1..Len(recentEvents[p]) :
         recentEvents[p][i].key = recentEvents[p][j].key => i = j
    /\ Len(decided[p]) > 0 =>
         \E i \in 1..Len(recentEvents[p]) :
           /\ recentEvents[p][i].key = decided[p][Len(decided[p])].line
           /\ recentEvents[p][i].seenAt = decided[p][Len(decided[p])].at

\* Three distinct signatures were looked up with a full cache: the oldest
\* entry has gone and the newest is in.
C23_Witness ==
  /\ Len(decided[1]) >= 3
  /\ Cardinality(DistinctAccepted(1, Len(decided[1]))) > recentMax
  /\ Len(recentEvents[1]) = recentMax
  /\ KeyIndex(recentEvents[1], decided[1][1].line) = 0
  /\ KeyIndex(recentEvents[1], decided[1][Len(decided[1])].line) = recentMax


(***************************************************************************)
(* Claims about the dispatch order (SpecOrder).                            *)
(***************************************************************************)
\* Where a hook command stands in the manifest: the position of its source in
\* the plugin sources followed by the top-level sources, of its rule in the
\* source, of the command in the rule.
Places(man) ==
  LET sources == man.plugins \o man.topHooks
  IN {<<s, r, c>> \in (1..Len(sources)) \X (1..3) \X (1..2) :
        /\ r <= Len(sources[s].events)
        /\ c <= Len(sources[s].events[r].commands)}

PlaceOf(man, run) ==
  LET sources == man.plugins \o man.topHooks
  IN CHOOSE pl \in Places(man) :
       /\ sources[pl[1]].id = run.source
       /\ sources[pl[1]].events[pl[2]].eventName = run.eventName
       /\ sources[pl[1]].events[pl[2]].commands[pl[3]].command = run.command

PlaceBefore(a, b) ==
  \/ a[1] < b[1]
  \/ a[1] = b[1] /\ a[2] < b[2]
  \/ a[1] = b[1] /\ a[2] = b[2] /\ a[3] < b[3]

\* The places of the commands whose rule is subscribed to a name of the event.
TriggeredPlaces(man, ev) ==
  LET sources == man.plugins \o man.topHooks
  IN {pl \in Places(man) :
        /\ Includes(mapEventNames(ev.rawType), sources[pl[1]].events[pl[2]].eventName)
        /\ matchesRule(sources[pl[1]].events[pl[2]].matcher, buildMatcherText(ev))}

\* C24: dispatch order and sequentiality.  The commands run for one event are
\* the commands of the rules the event triggers in the plugin sources and in
\* the top-level sources alike, each once, ordered by source (plugin sources
\* in manifest order, then top-level sources), then by rule, then by command;
\* and the commands of an event are all run before any command of the event
\* of a later line, and belong to a line already decided.
C24_DispatchOrder ==
  \A p \in Procs :
    /\ \A a, b \in 1..Len(ran[p]) : a < b =>
         /\ ran[p][a].ev <= ran[p][b].ev
         /\ ran[p][a].ev = ran[p][b].ev =>
              PlaceBefore(PlaceOf(manifest, ran[p][a]), PlaceOf(manifest, ran[p][b]))
    /\ \A k \in 1..Len(ran[p]) :
         /\ ran[p][k].ev \in 1..Len(decided[p])
         /\ decided[p][ran[p][k].ev].verdict \in {"dispatched", "synthetic"}
    /\ \A i \in 1..Len(decided[p]) :
         decided[p][i].verdict \in {"dispatched", "synthetic"} =>
           {PlaceOf(manifest, ran[p][k]) : k \in RunsOfDecision(p, i)}
             = TriggeredPlaces(manifest, EventOf(decided[p][i]))

\* A task_complete line ran the two commands of the first plugin's rule, the
\* first plugin's Stop command, the second plugin's command and the two
\* top-level commands, although the first of them failed; the task_started
\* line after it then ran its three commands.
C24_Witness ==
  /\ manifest = OrderManifest
  /\ hookBehaviour["notify"] = "exit1"
  /\ Len(decided[1]) >= 2
  /\ decided[1][1].line = <<"tc">> /\ decided[1][1].verdict = "dispatched"
  /\ decided[1][2].line = <<"ts">> /\ decided[1][2].verdict = "dispatched"
  /\ SubSeq([k \in 1..Len(ran[1]) |-> ran[1][k].command], 1, 9)
       = <<"notify", "log", "cleanup", "second", "top1", "top2", "greet", "begin", "top3">>

(***************************************************************************)
(* Claims about the discovery of session files (SpecDiscover).             *)
(***************************************************************************)
\* C25: first discovery in watch mode.  In every step of a watcher that goes
\* on running: a file gets its offset entry only while the locator sees it,
\* with offset 0 and an empty remainder; every pass starts with an entry for
\* every file the locator sees; the priming steps leave the entries that
\* exist as they are and no step removes one; and the poll of a file leaves
\* one decision for each newline-terminated line of the whole file.
C25_FirstDiscovery ==
  [][\A p \in Procs : (mode[p] = "watch" /\ Running(p) /\ pc'[p] \notin {"done", "dead"}) =>
       \A f \in Files :
         /\ (offsets[p][f] = NoEntry /\ offsets'[p][f] # NoEntry) =>
              /\ f \in visible
              /\ offsets'[p][f] = 0
              /\ remainders'[p][f] = <<>>
         /\ (pc[p] = "looptop" /\ pc'[p] = "pass" /\ f \in visible) => offsets'[p][f] # NoEntry
         /\ offsets[p][f] # NoEntry =>
              /\ offsets'[p][f] # NoEntry
              /\ pc[p] \in {"acquired", "looptop"} =>
                   /\ offsets'[p][f] = offsets[p][f]
                   /\ remainders'[p][f] = remainders[p][f]
         /\ (pc[p] = "pass" /\ todo[p] # <<>> /\ todo'[p] = Tail(todo[p]) /\ Head(todo[p]) = f) =>
              /\ offsets'[p][f] = Len(fileContent[f])
              /\ Len(SelectSeq(decided'[p], LAMBDA d : d.file = f))
                   = Len(SplitLines(fileContent[f])) - 1]_vars

\* The second file, holding a line, came into the locator's sight after the
\* watcher had started; its line was decided before a line of the first
\* file, which a later pass read; the second file has disappeared since and
\* its entry is still there at the start of the next pass.
C25_Witness ==
  /\ pc[1] = "pass"
  /\ todo[1] = <<1>>
  /\ visible = {1}
  /\ offsets[1] = [f \in Files |-> 2]
  /\ Len(decided[1]) = 2
  /\ decided[1][1].file = 2
  /\ decided[1][2].file = 1

(***************************************************************************)
(* Claims about the acquisition of the lock (SpecAcquire).                 *)
(***************************************************************************)
\* The positions of a process inside acquireWatchLock, in the order of the
\* code; the exclusive create is attempted at "open1" and at "open2" only.
AcquireRank(at) ==
  CASE at = "open1" -> 1
    [] at = "write1" -> 2
    [] at = "read" -> 2
    [] at = "probe" -> 3
    [] at = "unlink" -> 4
    [] at = "open2" -> 5
    [] at = "write2" -> 6
    [] OTHER -> 0

Acquiring(p) == AcquireRank(pc[p]) > 0

AcquireStep(p) ==
  \/ Open1(p) \/ Write1(p) \/ ReadLock(p) \/ Probe(p) \/ Unlink(p) \/ Open2(p) \/ Write2(p)

PastReaper(p) == pc[p] \in {"open1", "write1", "read", "probe", "unlink", "open2", "write2",
                            "acquired", "looptop", "pass", "sleep"}

\* C27: reaper placement and robustness.  A watcher with a debug log has run
\* the reaper when it is at the lock or beyond, and the reaper runs in one
\* step only: of a watcher that has not run it, whose last record in the log
\* is its own bridge-start, that has not touched the lock and that goes on
\* to the first create of the lock.  The PIDs signalled never include the
\* watcher's own, and every candidate is signalled once, in the order of the
\* log, whether or not the signalling of an earlier one failed.
C27_ReaperPlacement ==
  [][\A p \in Procs :
       /\ (debugLog.on /\ mode[p] = "watch" /\ PastReaper(p)) => Len(reaped[p]) = 1
       /\ reaped'[p] # reaped[p] =>
            /\ reaped[p] = <<>>
            /\ pc[p] = "reap" /\ pc'[p] = "open1"
            /\ outcome[p] = "none" /\ ~mutated[p] /\ lockOwner # p
            /\ debugLog.records # <<>>
            /\ Last(debugLog.records) = LogRecord(p, now, "bridge-start", "watch",
                                                  OwnHome, OwnProject)
            /\ Len(reaped'[p]) = 1
            /\ LET r == reaped'[p][1]
               IN /\ p \notin r.pids
                  /\ {r.signals[k].pid : k \in 1..Len(r.signals)} = r.pids
                  /\ \A j, k \in 1..Len(r.signals) :
                       r.signals[j].pid = r.signals[k].pid => j = k
                  /\ \A j, k \in 1..Len(r.signals) : j < k =>
                       \E a \in RecordsOfPid(r.log, r.signals[j].pid) :
                         \A b \in RecordsOfPid(r.log, r.signals[k].pid) : a < b]_vars

\* The reaper of process 1 found two candidates besides its own start record
\* in the log: signalling the first failed, the second was signalled all the
\* same, and process 1 went on to acquire the lock.
C27_Witness ==
  /\ pc[1] = "looptop"
  /\ outcome[1] = "acquired"
  /\ Len(reaped[1]) = 1
  /\ reaped[1][1].signals = << [pid |-> StalePid, sent |-> FALSE],
                               [pid |-> StalePid + 1, sent |-> TRUE] >>
  /\ LiveWatcherByLog(reaped[1][1].log, 1, reaped[1][1].at)

(***************************************************************************)
(* Claims about the normalization of events (SpecParse).                   *)
(***************************************************************************)
\* The two kinds of record that are events, by the fields of the record.
IsEventMsg(doc) ==
  doc.ok /\ doc.type = <<"event_msg">> /\ doc.hasPayload /\ doc.ptype # NoStr

IsEscalatedCall(doc) ==
  /\ doc.ok /\ doc.type = <<"response_item">> /\ doc.hasPayload
  /\ doc.ptype = <<"function_call">>
  /\ doc.name # NoStr /\ doc.name # <<>>
  /\ ParseArguments(doc.arguments).ok
  /\ ParseArguments(doc.arguments).sandbox_permissions = <<"require_escalated">>

\* C28: event normalization.  A line yields an event exactly when it is the
\* text of an event_msg record whose payload type is a string, and then the
\* raw type is that string, or of a function_call record with a non-empty
\* tool name whose decoded arguments require escalation, and then the raw
\* type is apply_patch_approval_request for apply_patch and
\* exec_approval_request for any other tool.  Every other line is decided as
\* blank or as no event, runs no command, and the run does not fail.
C28_Normalization ==
  \A p \in Procs :
    /\ pc[p] \notin {"abort", "dead"}
    /\ \A i \in 1..Len(decided[p]) :
         decided[p][i].verdict # "synthetic" =>
           LET d == decided[p][i]
               doc == JsonParse(d.line)
               ev == parseCodexEvent(d.line)
           IN /\ ev.ok <=> (IsEventMsg(doc) \/ IsEscalatedCall(doc))
              /\ IsEventMsg(doc) => ev.rawType = doc.ptype[1]
              /\ IsEscalatedCall(doc) =>
                   ev.rawType = (IF doc.name = <<"apply_patch">>
                                   THEN "apply_patch_approval_request"
                                   ELSE "exec_approval_request")
              /\ (IsEventMsg(doc) \/ IsEscalatedCall(doc)) =>
                   d.verdict \in {"filtered", "deduped", "dispatched"}
              /\ ~(IsEventMsg(doc) \/ IsEscalatedCall(doc)) =>
                   /\ d.verdict \in {"blank", "unparsed"}
                   /\ RunsOfDecision(p, i) = {}

\* An escalated apply_patch call and an escalated shell call
\* were dispatched as the two approval requests and ran the permission
\* hooks; the call that is not escalated after them was no event, and the
\* run ended normally.
C28_Witness ==
  /\ pc[1] = "done"
  /\ Len(decided[1]) = 3
  /\ decided[1][1].line = <<"ap">> /\ decided[1][1].verdict = "dispatched"
  /\ parseCodexEvent(decided[1][1].line).rawType = "apply_patch_approval_request"
  /\ decided[1][2].line = <<"fc">> /\ decided[1][2].verdict = "dispatched"
  /\ parseCodexEvent(decided[1][2].line).rawType = "exec_approval_request"
  /\ decided[1][3].line = <<"fn">> /\ decided[1][3].verdict = "unparsed"
  /\ RunsOfDecision(1, 1) # {} /\ RunsOfDecision(1, 2) # {}

(***************************************************************************)
(* Claims about failing log writes (SpecLogFail).                          *)
(***************************************************************************)
\* The log without the records of one PID.
OwnFree(records, pid) == SelectSeq(records, LAMBDA rec : rec.pid # pid)

LogFilesBelow(fs, root, floor) ==
  {e.path : e \in {x \in fs :
     (x.kind = "file") /\ (Len(x.path) > Len(root)) /\ IsPrefix(root, x.path)
       /\ endsWith(Last(x.path), JsonlExt)
       /\ ((floor # 0) => ((x.mtimeMs \div 1000) >= floor))}}

\* What a call of the locator returns apart from the order: nothing for a
\* missing root, else each of the files above once.
LocatedExactly ==
  /\ ~existsSync(sessions, SessionsRoot) => located.files = <<>>
  /\ {located.files[i] : i \in 1..Len(located.files)}
       = LogFilesBelow(sessions, SessionsRoot, located.since)
  /\ \A i, j \in 1..Len(located.files) : located.files[i] = located.files[j] => i = j

\* C30 as stated: session log locator.  A missing root yields the empty
\* list; otherwise the result holds exactly the regular files below the root
\* with the log extension and, under a floor, modified in whole seconds at
\* or after it, without duplicates, in the lexicographic order of the paths
\* (by their code units).
C30_Locator ==
  located.ran =>
    /\ LocatedExactly
    /\ \A i, j \in 1..Len(located.files) : i < j =>
         compareCodeUnits(PathString(located.files[i]), PathString(located.files[j])) < 0

\* C30 amended: the same files, without duplicates, in the order of
\* localeCompare on the paths, which puts a lower-case letter before an
\* upper-case one where code units put it after.
C30_LocatorCollated ==
  located.ran =>
    /\ LocatedExactly
    /\ \A i, j \in 1..Len(located.files) : i < j =>
         localeCompare(PathString(located.files[i]), PathString(located.files[j])) < 0

\* Under the floor the locator returned the two files at depth 1 modified at
\* the floor and after it, a.jsonl before B.jsonl, the file below the
\* directory a and the file at depth 3, and left out the file modified
\* before the floor, the file with another extension and the link.
C30_Witness ==
  /\ located.ran
  /\ located.since = 10
  /\ sessions = SessionTree(SessionPool)
  /\ located.files =
       << SessionsRoot \o <<SessionName(<<"a">>)>>,
          SessionsRoot \o << <<"a">>, <<"1">>, SessionName(<<"B">>) >>,
          SessionsRoot \o << <<"a">>, SessionName(<<"B">>) >>,
          SessionsRoot \o <<SessionName(<<"B">>)>> >>

(***************************************************************************)
(* Claims about the stored offset and remainder (SpecRotate, SpecTail).    *)
(***************************************************************************)
\* The step is a poll of file f by p: a return of processSessionFile.
PollReturns(p, f) ==
  /\ pc[p] \in {"pass", "oncepass"}
  /\ todo[p] # <<>>
  /\ Head(todo[p]) = f
  /\ todo'[p] = Tail(todo[p])

\* The offset the map of p holds for f after the step (absent reads as 0).
TrackedOffsetAfter(p, f) == IF offsets'[p][f] = NoEntry THEN 0 ELSE offsets'[p][f]

\* C31: after every poll of a file the stored offset of the file equals the
\* size the poll observed; after a poll that observes the file truncated to
\* size 0 the stored offset is 0 and the stored remainder is empty.
C31_OffsetTracksSize ==
  [][\A p \in Procs : \A f \in Files :
       PollReturns(p, f) =>
         /\ TrackedOffsetAfter(p, f) = Len(fileContent[f])
         /\ (Len(fileContent[f]) = 0 /\ TrackedOffset(p, f) > 0) =>
              /\ TrackedOffsetAfter(p, f) = 0
              /\ remainders'[p][f] = <<>>]_vars

\* The lines of the decisions ds, each followed by a newline, as one text.
RECURSIVE DecidedText(_)
DecidedText(ds) ==
  IF ds = <<>> THEN <<>>
  ELSE Head(ds).line \o <<NL>> \o DecidedText(Tail(ds))

\* C32: remainder invariant.  The stored remainder of a file never holds a
\* newline, and for a file that only grows the bytes before the stored
\* offset are the lines decided so far, each followed by a newline, followed
\* by the remainder.
C32_RemainderInvariant ==
  \A p \in Procs : \A f \in Files :
    /\ \A i \in 1..Len(remainders[p][f]) : remainders[p][f][i] # NL
    /\ Running(p) =>
         Utf8Decode(SubSeq(fileContent[f], 1, TrackedOffset(p, f)))
           = DecidedText(DecisionsOf(p, f)) \o remainders[p][f]

\* The same up to the decoding of a character that a poll boundary splits.
C32_RemainderInvariantBlurred ==
  \A p \in Procs : \A f \in Files :
    /\ \A i \in 1..Len(remainders[p][f]) : remainders[p][f][i] # NL
    /\ Running(p) =>
         Blur(Utf8Decode(SubSeq(fileContent[f], 1, TrackedOffset(p, f))))
           = Blur(DecidedText(DecisionsOf(p, f)) \o remainders[p][f])

(***************************************************************************)
(* Claims about the start and stop records (SpecLogFail).                  *)
(***************************************************************************)
\* C33: start/stop records are paired.  A watch invocation that has written
\* its bridge-start record and has returned from watch(), the return taken
\* when the lock is busy included, has written a bridge-stop record with
\* mode watch after it; so the records of an invocation that ended normally
\* never show a running watcher.
C33_StartStopPaired ==
  \A p \in Procs :
    (/\ mode[p] = "watch"
     /\ pc[p] = "done"
     /\ StartsOfPid(debugLog.records, p) # {}) =>
      /\ \E i \in RecordsOfPid(debugLog.records, p) :
           /\ i > Latest(StartsOfPid(debugLog.records, p))
           /\ debugLog.records[i].kind = "bridge-stop"
           /\ debugLog.records[i].mode = "watch"
      /\ ~LiveWatcherByLog(debugLog.records, p, now)

(***************************************************************************)
(* Watcher convergence (SpecConverge).                                     *)
(***************************************************************************)
\* Two watch invocations for the same target, with the debug log written.
\* Each runs the reaper, acquires the lock or finds it busy, polls and
\* sleeps until a signal of the other's reaper stops it, and releases.
InitConverge ==
  /\ InitCommon
  /\ InitQuietHooks
  /\ InitNoTool
  /\ InitCapacity
  /\ debugLog = [on |-> TRUE, fails |-> {}, records |-> <<>>]
  /\ lockOwner = 0
  /\ lockPid = NoPid
  /\ visible = {1}
  /\ fileContent \in {[f \in Files |-> IF f = 1 THEN text ELSE <<>>] :
                         text \in {<<>>, <<"tc", NL>>}}
  /\ manifestFile = ObjectFile(DemoManifest)

\* The steps of invocation p, from its start to its exit, but the poll of a
\* file.
ConvergeControl(p) ==
  \/ Start(p, "watch", NoSince, FALSE)
  \/ Reap(p)
  \/ Open1(p)
  \/ Write1(p)
  \/ ReadLock(p)
  \/ Probe(p)
  \/ Unlink(p)
  \/ Open2(p)
  \/ Write2(p)
  \/ WatchInit(p)
  \/ LoopTop(p)
  \/ PassEnd(p)
  \/ Wake(p)
  \/ ReleaseRead(p)
  \/ ReleaseUnlink(p)
  \/ Finish(p)

ConvergeStep(p) == ConvergeControl(p) \/ PollFile(p)

NextConverge == \E p \in Twins : ConvergeStep(p)

\* PollFile(p) can be taken: its guard.
CanPoll(p) ==
  /\ pc[p] \in {"pass", "oncepass"}
  /\ todo[p] # <<>>
  /\ Head(todo[p]) \in visible

\* A process that can take a step takes one (a process runs; nothing in
\* the code waits but the sleep, which ends).  The weak fairness of the poll
\* is written out, with the guard of PollFile for its enabling condition.
SpecConverge ==
  /\ InitConverge
  /\ [][NextConverge]_vars
  /\ \A p \in Twins :
       /\ WF_vars(ConvergeControl(p))
       /\ []<>(~CanPoll(p)) \/ []<><<PollFile(p)>>_vars

\* q is a live watcher that holds the lock and has been sent the signal of
\* another invocation's reaper.
SignalledHolder(q) ==
  /\ lockOwner = q
  /\ lockPid = q
  /\ HandlersInstalled(q)
  /\ sigPending[q] \/ stopping[q]
  /\ \E p \in Procs \ {q} : reaped[p] # <<>> /\ q \in reaped[p][1].pids

\* r is a live process that holds the lock and keeps polling: it is in the
\* loop of watch() and no stop has been requested of it.
KeepsPolling(r) ==
  /\ lockOwner = r
  /\ lockPid = r
  /\ pc[r] \in {"looptop", "pass", "sleep"}
  /\ ~sigPending[r]
  /\ ~stopping[r]

\* C34: watcher convergence.  Whenever a live watcher that holds the lock
\* has been signalled by the reaper of a new watch invocation, eventually
\* some live process holds the watch lock and keeps polling the target.
C34_WatcherConvergence ==
  (\E q \in Procs : SignalledHolder(q)) ~> (\E r \in Procs : KeepsPolling(r))

(***************************************************************************)
(* Once mode and the lock protocol (SpecLogFail).                          *)
(***************************************************************************)
\* The step is one of p, a once-mode run: its start, a poll or its end.
OnceRunStep(p) ==
  \/ pc[p] = "idle" /\ pc'[p] # "idle" /\ mode'[p] = "once"
  \/ /\ mode[p] = "once"
     /\ pc[p] # "idle"
     /\ pc'[p] # pc[p] \/ todo'[p] # todo[p]

\* C35: once mode is outside the lock protocol.  A once-mode run never
\* creates, reads or deletes the watch lock file and never runs the reaper,
\* whether or not a watcher holds the lock: no step of the run changes the
\* lock file, and the run is never at a step of the reaper, of the lock
\* acquisition or of the release.
C35_OnceOutsideLock ==
  [][\A p \in Procs :
       /\ OnceRunStep(p) =>
            /\ lockOwner' = lockOwner
            /\ lockPid' = lockPid
            /\ reaped' = reaped
            /\ \A q \in Procs \ {p} : pc'[q] = pc[q] /\ sigPending'[q] = sigPending[q]
       /\ (mode'[p] = "once" /\ pc'[p] # "idle") =>
            /\ pc'[p] \in {"oncepass", "done", "abort"}
            /\ ~mutated'[p]
            /\ existingPid'[p] = NoPid
            /\ outcome'[p] = "none"
            /\ reaped'[p] = <<>>]_vars

\* A once run has started and ended, with its two decisions taken, while a
\* watcher held the lock, which is as it was.
C35_Witness ==
  /\ mode[1] = "once"
  /\ pc[1] = "done"
  /\ Len(decided[1]) = 2
  /\ mode[2] = "watch"
  /\ pc[2] = "acquired"
  /\ lockOwner = 2
  /\ lockPid = 2

(***************************************************************************)
(* The scope of the dedup cache (SpecScope).                               *)
(***************************************************************************)
\* One watcher with a floor of 10 s over two session files.  The files hold
\* lines that are accepted, older than the floor, blank, not JSON, and JSON
\* of a record the normalizer does not take; accepted lines are appended to
\* the first file and it is rotated while the watcher runs.  The accepted
\* texts fit in the cache.
ScopeTexts1 == {<<>>, <<"tc", NL>>, <<"ts", NL, "tc", NL>>}

ScopeTexts2 == {<<>>, <<"xx", NL, "tc", NL>>, <<" ", NL, "fn", NL>>}

InitScope ==
  /\ InitCommon
  /\ InitQuietHooks
  /\ InitNoTool
  /\ InitNoLog
  /\ recentMax = RECENT_EVENT_MAX + 1
  /\ lockOwner = 0
  /\ lockPid = NoPid
  /\ visible = Files
  /\ fileContent \in {[f \in Files |-> IF f = 1 THEN t1 ELSE t2] :
                         t1 \in ScopeTexts1, t2 \in ScopeTexts2}
  /\ manifestFile = ObjectFile(DemoManifest)

NextScope ==
  \/ Start(1, "watch", 10, FALSE)
  \/ Open1(1)
  \/ Write1(1)
  \/ WatchInit(1)
  \/ LoopTop(1)
  \/ PollFile(1)
  \/ PassEnd(1)
  \/ Wake(1)
  \/ AppendLine(1, "tc")
  \/ Truncate(1, 0)
  \/ \E d \in {RECENT_EVENT_TTL_MS, RECENT_EVENT_TTL_MS + 1} : Tick(d)

SpecScope == InitScope /\ [][NextScope]_vars

\* C36: dedup scope.  The cache is one per run, shared by the session files,
\* and only accepted lines are recorded in it: every entry a poll creates or
\* refreshes has the text of a line the poll accepted (blank, malformed,
\* unrecognized and since-filtered lines create and refresh none); and of
\* two accepted lines with the same text, in the same file or not, re-read
\* after a truncation or not, with at most TTL between them and no accepted
\* line of that text between them, the later one is not dispatched.
C36_DedupScope ==
  [][\A p \in Procs :
       /\ \A f \in Files :
            PollReturns(p, f) =>
              LET fresh == SubSeq(decided'[p], Len(decided[p]) + 1, Len(decided'[p]))
              IN \A i \in 1..Len(recentEvents'[p]) :
                   \/ \E k \in 1..Len(recentEvents[p]) : recentEvents[p][k] = recentEvents'[p][i]
                   \/ /\ recentEvents'[p][i].seenAt = now
                      /\ \E k \in 1..Len(fresh) :
                           /\ Accepted(fresh[k])
                           /\ fresh[k].file = f
                           /\ fresh[k].line = recentEvents'[p][i].key
       /\ \A i, j \in 1..Len(decided'[p]) :
            (/\ i < j
             /\ Accepted(decided'[p][i])
             /\ Accepted(decided'[p][j])
             /\ decided'[p][i].line = decided'[p][j].line
             /\ decided'[p][j].at - decided'[p][i].at <= RECENT_EVENT_TTL_MS
             /\ \A k \in (i + 1)..(j - 1) :
                  ~(Accepted(decided'[p][k]) /\ decided'[p][k].line = decided'[p][i].line))
            => decided'[p][j].verdict = "deduped"]_vars

\* The same line was accepted in two files within TTL and dispatched once; a
\* malformed line read between the two left the cache as it was.
C36_Witness ==
  /\ Len(decided[1]) = 3
  /\ decided[1][1] = Verdict(1, <<"tc">>, "dispatched", 0)
  /\ decided[1][2].verdict = "unparsed"
  /\ decided[1][3] = Verdict(2, <<"tc">>, "deduped", 0)
  /\ Len(recentEvents[1]) = 1

(***************************************************************************)
(* The timeout of a hook command (SpecTimeout).                            *)
(***************************************************************************)
\* The timeouts a manifest declares: negative, zero, below, at and above one
\* second, whole and fractional, large; not finite; not a number; absent.
TimeoutDecls ==
  {Seconds(t) : t \in {0 - 2000, 0, 1, 500, 999, 1000, 1001, 1500, 10000, 60000}}
    \cup {NotFinite, TextValue, Undefined}

TimeoutManifest(onStop, onComplete) ==
  [plugins |->
     << [id |-> "home:demo-stop-plugin",
         events |-> << Rule("Stop", NoMatcher, <<TimedCommand("stop", onStop)>>),
                       Rule("TaskComplete", NoMatcher,
                            <<TimedCommand("complete", onComplete)>>) >>] >>,
   topHooks |-> <<>>]

\* One once run, with or without the synthetic Stop, over a file of
\* task_complete lines, for every pair of declared timeouts.
InitTimeout ==
  /\ InitCommon
  /\ InitQuietHooks
  /\ InitNoTool
  /\ InitCapacity
  /\ InitNoLog
  /\ lockOwner = 0
  /\ lockPid = NoPid
  /\ visible = {1}
  /\ fileContent = [f \in Files |-> <<>>]
  /\ manifestFile \in {ObjectFile(TimeoutManifest(onStop, onComplete)) :
                          onStop \in TimeoutDecls, onComplete \in TimeoutDecls}

NextTimeout ==
  \/ \E e \in BOOLEAN : Start(1, "once", NoSince, e)
  \/ PollFile(1)
  \/ OnceEnd(1)
  \/ AppendLine(1, "tc")

SpecTimeout == InitTimeout /\ [][NextTimeout]_vars

\* The timeout the manifest declares for the command of a run.
DeclaredTimeout(man, run) ==
  LET sources == getAllHookSources(man)
      decls == {sources[s].events[r].commands[c].timeout :
                  <<s, r, c>> \in
                    {t \in (1..Len(sources)) \X (1..2) \X (1..1) :
                       /\ t[2] <= Len(sources[t[1]].events)
                       /\ t[3] <= Len(sources[t[1]].events[t[2]].commands)
                       /\ sources[t[1]].id = run.source
                       /\ sources[t[1]].events[t[2]].eventName = run.eventName
                       /\ sources[t[1]].events[t[2]].commands[t[3]].command = run.command}}
  IN CHOOSE d \in decls : TRUE

\* C37: effective hook timeout.  The timeout applied to a hook command is
\* the declared number of seconds when that is a finite number >= 1, one
\* second when it is a finite number below 1, and ten seconds when the
\* declared timeout is absent or not a finite number; it is never below one
\* second.
C37_EffectiveTimeout ==
  \A p \in Procs : \A i \in 1..Len(ran[p]) :
    LET declared == DeclaredTimeout(manifest, ran[p][i])
        applied == ran[p][i].timeoutMs
    IN /\ (NumberIsFinite(declared) /\ declared.thousandths >= 1000) =>
            applied = declared.thousandths
       /\ (NumberIsFinite(declared) /\ declared.thousandths < 1000) => applied = 1000
       /\ ~NumberIsFinite(declared) => applied = 10000
       /\ applied >= 1000

\* A run over one task_complete line, whose Stop command declares half a
\* second and whose TaskComplete command declares a text, has run both: with
\* one second and with ten.
C37_Witness ==
  /\ pc[1] = "done"
  /\ Len(ran[1]) = 2
  /\ ran[1][1].command = "stop"
  /\ DeclaredTimeout(manifest, ran[1][1]) = Seconds(500)
  /\ ran[1][1].timeoutMs = 1000
  /\ ran[1][2].command = "complete"
  /\ DeclaredTimeout(manifest, ran[1][2]) = TextValue
  /\ ran[1][2].timeoutMs = 10000

(***************************************************************************)
(* The rewrite of the managed block (SpecRewrite).                         *)
(***************************************************************************)
\* A call of applyManagedBlock on the config text the last call left.
Rewrite(blockText) ==
  /\ rewrite' = [ran |-> TRUE, before |-> rewrite.after, block |-> blockText,
                 after |-> applyManagedBlock(rewrite.after, blockText)]
  /\ UNCHANGED <<lockVars, procVars, runVars, envVars, manifest, logVars, disk, syncLog,
                 sessions, located, recentMax, histVars, ghostVars>>

\* The config texts of up to MaxConfigLen tokens: lines of the user,
\* newlines and markers, in any order.
ConfigTexts ==
  UNION {[1..n -> {Tok("user"), Tok("nl"), Tok("start"), Tok("end")}] : n \in 0..MaxConfigLen}

\* The managed blocks of no server and of one server.
BlockTexts ==
  {buildManagedMcpBlock(servers) : servers \in {{}, {<<"only", "plugin-only-command">>}}}

InitRewrite ==
  /\ InitCommon
  /\ InitQuietHooks
  /\ InitCapacity
  /\ InitNoLog
  /\ lockOwner = 0
  /\ lockPid = NoPid
  /\ visible = {}
  /\ fileContent = [f \in Files |-> <<>>]
  /\ manifestFile = ObjectFile(DemoManifest)
  /\ disk = {}
  /\ syncLog = NoRun
  /\ sessions = {}
  /\ located = NoLocate
  /\ rewrite \in {[NoRewrite EXCEPT !.after = text] : text \in ConfigTexts}

NextRewrite == \E blockText \in BlockTexts : Rewrite(blockText)

SpecRewrite == InitRewrite /\ [][NextRewrite]_vars

\* The text holds a start marker and an end marker after it.
CompletePair(text) ==
  \E a, b \in 1..Len(text) : a < b /\ text[a].k = "start" /\ text[b].k = "end"

\* after is before with the block put in place of a stretch that runs from a
\* start marker to an end marker (and the newline that ends its line), or,
\* when before holds no complete pair, with a separator and the block put
\* after it; nothing else of before has changed.
OnlyBlockChanged(before, block, after) ==
  \E i, j \in 0..Len(before) :
    /\ i <= j
    /\ \/ /\ i < j
          /\ CompletePair(before)
          /\ before[i + 1].k = "start"
          /\ \/ before[j].k = "end"
             \/ j > 1 /\ before[j].k = "nl" /\ before[j - 1].k = "end"
          /\ after = SubSeq(before, 1, i) \o block \o SubSeq(before, j + 1, Len(before))
       \/ /\ i = Len(before)
          /\ j = Len(before)
          /\ ~CompletePair(before)
          /\ \E separator \in {<<>>, <<Tok("nl")>>, <<Tok("nl"), Tok("nl")>>} :
               after = before \o separator \o block

\* C38: managed block rewrite.  applyManagedBlock changes only the text
\* between the managed start and end markers, or appends the block when the
\* text holds no complete marker pair, and leaves every character outside
\* the block as it was; applying the same block text a second time gives the
\* text the first application gave.
C38_ManagedBlockRewrite ==
  [][rewrite'.ran =>
       /\ OnlyBlockChanged(rewrite'.before, rewrite'.block, rewrite'.after)
       /\ (rewrite.ran /\ rewrite'.block = rewrite.block) =>
            rewrite'.after = rewrite.after]_vars

=========================================================================
